---- MODULE Spec2Model ----
(***************************************************************************)
(* A model of the Urho3D-Blender exporter: path resolution and the write   *)
(* gate (utils.py), the LOD-set operators and the export run               *)
(* (__init__.py).                                                          *)
(*                                                                         *)
(* Strings are sequences of one-character strings, so that sanitization,   *)
(* extension handling and separator conversion are computed character by   *)
(* character as the code does.                                             *)
(***************************************************************************)
EXTENDS Integers, Sequences, FiniteSets, TLC

VARIABLES
    sep,            \* os.path.sep of the host: "/" or "\\"
    fOptions,       \* the FOptions object handed to GetFilepath / CheckFilepath
    callerSet,      \* history: the caller set preserveExtTemp since the last GetFilepath call
    calls,          \* history: the GetFilepath calls made so far, with their results
    lodsets,        \* bpy.data.worlds[0].lodsets
    lodset_counter, \* bpy.data.worlds[0].lodset_counter
    objects,        \* the user objects of bpy.data.objects, with their lodsetID
    active_object,  \* bpy.context.active_object
    deletedIds,     \* history: the lodset_id of every set removed so far
    opError,        \* the operator that ran last ended with an exception
    appVersion,     \* bpy.app.version
    pc,             \* position of the export run
    outcome,        \* how ExecuteUrhoExport ended: "none", "true", "false", "raised"
    settings,       \* context.scene.urho_exportsettings, as read by the run
    tDataList,      \* the export units Scan delivers
    unitIdx,        \* index of the unit being exported
    subIdx,         \* index of the model, animation or texture being exported
    tempObjects,    \* the module-level list tempObjects
    sceneObjects,   \* temporary objects linked in bpy.context.scene.collection
    processedMeshes,\* the run's processedMeshes list
    dirs,           \* directories that exist on disk
    files,          \* files on disk, each with its content
    files0,         \* history: the files on disk when the run started
    trace,          \* history: CheckFilepath calls and artifact writes, in order
    errors,         \* ErrorsMem.errors: category name -> bucket
    seconds,        \* ErrorsMem.seconds: the intern table
    internLog,      \* history: SecondIndex calls since the last Clear, with their results
    lastOp,         \* history: the last ErrorsMem operation and the state it started from
    hashKey,        \* the key handed to SDBMHash, as character codes
    hashOut,        \* what SDBMHash returned for it
    buffer,         \* BinaryFileWriter.buffer
    wState,         \* the writer: "new", "open" after open(), "closed" after close()
    wDisk,          \* the file at BinaryFileWriter.filename on disk
    wDisk0,         \* history: that file when open() was called
    wLast,          \* history: the last writer call and the buffer it started from
    execution_queue,\* utils.execution_queue: what run_in_main_thread was handed, oldest first
    posted,         \* history: how many times run_in_main_thread was called
    ran,            \* history: the queued functions called so far, in order
    tick,           \* execute_queued_functions: "idle" between ticks, "drain" inside its loop
    lastTick,       \* how the last tick ended: "none", "returned 1", "raised"
    timer,          \* the host's timer: "armed", or "removed" after a tick that raised
    requests2Engine,\* utils.requests2Engine: request type -> value (NoValue: no entry)
    queued,         \* history: how many times queueRequestForRuntime was called
    everQueued,     \* history: the request types queued so far
    blender2runtime,\* utils.blender2runtime: None, "" or the path of the request file
    mailbox,        \* the request file on disk
    everWritten,    \* history: the request types written to the request file so far
    tickStart,      \* history: requests2Engine and the request file when the tick began
    inbox,          \* the runtime2blender file: "absent", "reload", "other" or "bad"
    exportSettings, \* context.scene.urho_exportsettings, the UrhoExportSettings property group
    changes,        \* history: how many property changes and resets the user made
    lastCallback,   \* history: the update callback the last change fired, and how it went
    renamed,        \* history: the last assignment to a LOD set's lodset_name, and how it went
    user_data,      \* object -> number of items of its user_data collection
    list_index_userdata, \* object -> its list_index_userdata
    listOp          \* history: the last list operator, the index and the length it found

pathVars == <<sep, fOptions, callerSet, calls>>
lodVars  == <<lodsets, lodset_counter, objects, active_object, deletedIds, opError>>
runVars  == <<appVersion, pc, outcome, settings, tDataList, unitIdx, subIdx, tempObjects,
              sceneObjects, processedMeshes, dirs, files, files0, trace>>
memVars  == <<errors, seconds, internLog, lastOp>>
hashVars == <<hashKey, hashOut>>
writerVars == <<buffer, wState, wDisk, wDisk0, wLast>>
timerVars == <<execution_queue, posted, ran, tick, lastTick, timer, requests2Engine, queued,
               everQueued, blender2runtime, mailbox, everWritten, tickStart, inbox>>
panelVars == <<exportSettings, changes, lastCallback>>
listVars == <<renamed, user_data, list_index_userdata, listOp>>
hostVars == <<timerVars, panelVars, listVars>>
utilVars == <<errors, seconds, internLog, lastOp, hashKey, hashOut,
              buffer, wState, wDisk, wDisk0, wLast, hostVars>>
vars     == <<sep, fOptions, callerSet, calls,
              lodsets, lodset_counter, objects, active_object, deletedIds, opError,
              appVersion, pc, outcome, settings, tDataList, unitIdx, subIdx, tempObjects,
              sceneObjects, processedMeshes, dirs, files, files0, trace,
              errors, seconds, internLog, lastOp, hashKey, hashOut,
              buffer, wState, wDisk, wDisk0, wLast, hostVars>>

Range(s) == {s[i] : i \in 1..Len(s)}

-----------------------------------------------------------------------------
(* Path types and file options (utils.py)                                  *)

PathType ==
    [ROOT |-> "ROOT-", MODELS |-> "MODE-", ANIMATIONS |-> "ANIM-",
     TRIGGERS |-> "TRIG-", TEXTURES |-> "TEXT-"]

\* the path types the export run resolves files for
FileTypes == {PathType.MODELS, PathType.ANIMATIONS, PathType.TRIGGERS, PathType.TEXTURES}

\* FOptions.exts
Exts ==
    (PathType.MODELS :> <<"m", "d", "l">>) @@
    (PathType.ANIMATIONS :> <<"a", "n", "i">>) @@
    (PathType.TRIGGERS :> <<"x", "m", "l">>) @@
    (PathType.TEXTURES :> <<"p", "n", "g">>)

Backslash == "\\"
Slash == "/"
Extsep == "."

\* the characters the model's strings are made of that \w matches
WordChars == {"a", "b", "c", "d", "e", "f", "g", "h", "i", "j", "k", "l", "m", "n", "o", "p",
              "q", "r", "s", "t", "u", "v", "w", "x", "y", "z",
              "0", "1", "2", "3", "4", "5", "6", "7", "8", "9", "_", "D", "L", "O"}

\* the characters the pattern [^\w_.)( -] leaves alone
SafeChars == WordChars \cup {"_", ".", ")", "(", " ", "-"}

\* re.sub('[^\w_.)( -]', '_', name) on a string
Sanitize(name) == [i \in 1..Len(name) |-> IF name[i] \in SafeChars THEN name[i] ELSE "_"]

\* the characters os.path treats as separators: ntpath accepts both
Separators(s) == IF s = Backslash THEN {Backslash, Slash} ELSE {Slash}

StartsWithSep(s, p) == Len(p) > 0 /\ p[1] \in Separators(s)
EndsWithSep(s, p) == Len(p) > 0 /\ p[Len(p)] \in Separators(s)

\* os.path.join(a, b)
Join(s, a, b) ==
    IF StartsWithSep(s, b) THEN b
    ELSE IF Len(a) = 0 \/ EndsWithSep(s, a) THEN a \o b
    ELSE a \o <<s>> \o b

\* str.split on the separators: the segments between them, empty ones included
RECURSIVE Split(_, _)
Split(p, seps) ==
    IF \A i \in 1..Len(p) : p[i] \notin seps THEN <<p>>
    ELSE LET k == CHOOSE i \in 1..Len(p) :
                     p[i] \in seps /\ \A j \in 1..(i - 1) : p[j] \notin seps
         IN  <<SubSeq(p, 1, k - 1)>> \o Split(SubSeq(p, k + 1, Len(p)), seps)

\* the component loop of os.path.normpath
RECURSIVE NormAcc(_, _, _)
NormAcc(comps, acc, abs) ==
    IF comps = <<>> THEN acc
    ELSE LET c == Head(comps)
             rest == Tail(comps)
         IN  IF c = <<>> \/ c = <<".">> THEN NormAcc(rest, acc, abs)
             ELSE IF \/ c # <<".", ".">>
                     \/ (~abs /\ acc = <<>>)
                     \/ (acc # <<>> /\ acc[Len(acc)] = <<".", ".">>)
                  THEN NormAcc(rest, Append(acc, c), abs)
             ELSE IF acc # <<>> THEN NormAcc(rest, SubSeq(acc, 1, Len(acc) - 1), abs)
             ELSE NormAcc(rest, acc, abs)

\* the normalized components of a path
Components(s, p) == NormAcc(Split(p, Separators(s)), <<>>, StartsWithSep(s, p))

\* sep.join(comps)
RECURSIVE JoinComps(_, _)
JoinComps(comps, s) ==
    IF comps = <<>> THEN <<>>
    ELSE IF Len(comps) = 1 THEN comps[1]
    ELSE comps[1] \o <<s>> \o JoinComps(Tail(comps), s)

\* os.path.normpath(p)
Normpath(s, p) ==
    LET body == JoinComps(Components(s, p), s)
    IN  IF StartsWithSep(s, p) THEN <<s>> \o body
        ELSE IF body = <<>> THEN <<".">> ELSE body

\* length of the common prefix of two component lists
RECURSIVE CommonLen(_, _)
CommonLen(a, b) ==
    IF a = <<>> \/ b = <<>> \/ Head(a) # Head(b) THEN 0
    ELSE 1 + CommonLen(Tail(a), Tail(b))

\* os.path.relpath(path, start), both absolute
Relpath(s, path, start) ==
    LET start_list == Components(s, start)
        path_list == Components(s, path)
        i == CommonLen(start_list, path_list)
        rel_list == [k \in 1..(Len(start_list) - i) |-> <<".", ".">>]
                        \o SubSeq(path_list, i + 1, Len(path_list))
    IN  IF rel_list = <<>> THEN <<".">> ELSE JoinComps(rel_list, s)

\* str.replace(old, new) for one-character old and new
Replace(p, old, new) == [i \in 1..Len(p) |-> IF p[i] = old THEN new ELSE p[i]]

\* os.path.dirname(p)
Dirname(s, p) ==
    LET idx == {i \in 1..Len(p) : p[i] \in Separators(s)}
    IN  IF idx = {} THEN <<>>
        ELSE LET k == CHOOSE i \in idx : \A j \in idx : j <= i
                 head == SubSeq(p, 1, k)
             IN  IF \A j \in 1..k : head[j] \in Separators(s) THEN head
                 ELSE LET m == CHOOSE i \in 1..k :
                                  /\ head[i] \notin Separators(s)
                                  /\ \A j \in (i + 1)..k : head[j] \in Separators(s)
                      IN  SubSeq(head, 1, m)

\* A name handed to GetFilepath: a string (one segment) or a list/tuple of segments.
StrName(v) == [kind |-> "str", segs |-> <<v>>]
ListName(vs) == [kind |-> "list", segs |-> vs]

\* GetFilepath up to its return value: the pair (fileFullPath, fileUrhoPath), or
\* the exception the call ends with. re.sub refuses a list or tuple, so the join
\* of line 136 is never reached for a sequence of segments.
ResolveFilepath(pathType, name, fo, s) ==
    LET rootPath == Normpath(s, fo.paths[PathType.ROOT])
        fullPath == IF fo.useSubDirs THEN Join(s, rootPath, fo.paths[pathType])
                    ELSE rootPath
        sanitized == Sanitize(name.segs[1])
        ext == Exts[pathType]
        filename == IF Len(ext) > 0 /\ (~fo.preserveExtTemp \/ Extsep \notin Range(sanitized))
                    THEN sanitized \o <<Extsep>> \o ext
                    ELSE sanitized
        fileFullPath == Join(s, fullPath, filename)
        fileUrhoPath == Replace(Relpath(s, fileFullPath, rootPath), s, Slash)
    IN  IF name.kind # "str"
        THEN [raised |-> "TypeError", full |-> <<>>, rel |-> <<>>]
        ELSE [raised |-> "", full |-> fileFullPath, rel |-> fileUrhoPath]

\* a GetFilepath that forgets line 143
GetFilepath_NoReset(pathType, name, fo, s) ==
    [result |-> ResolveFilepath(pathType, name, fo, s), fOptions |-> fo]

\* GetFilepath(pathType, name, fOptions) on a host whose os.path.sep is s: what
\* it returns and fOptions as the call leaves it (line 143 is reached by every
\* call that gets past re.sub).
GetFilepath(pathType, name, fo, s) ==
    LET r == ResolveFilepath(pathType, name, fo, s)
    IN  [result |-> r,
         fOptions |-> IF r.raised = "" THEN [fo EXCEPT !.preserveExtTemp = FALSE] ELSE fo]

-----------------------------------------------------------------------------
(* The error ledger: ErrorsMem (utils.py)                                  *)

\* the error categories and the interned object names the model draws from
MemNames == {"A", "B"}
SecondKeys == {"x", "y", "z"}

\* the buckets a caller hands to Get as defaultValue
Buckets == {<<>>, <<"e">>}

\* a category that is not a key of self.errors
Absent == [present |-> FALSE, bucket |-> <<>>]

Bucket(b) == [present |-> TRUE, bucket |-> b]

\* ErrorsMem(): self.errors = {}, self.seconds = []
NoErrors == [n \in MemNames |-> Absent]

\* Get(name, defaultValue): the value returned (isNone when it is None) and
\* self.errors afterwards
Get(e, name, hasDefault, defaultValue) ==
    IF e[name].present
    THEN [isNone |-> FALSE, value |-> e[name].bucket, errors |-> e]
    ELSE IF hasDefault
         THEN [isNone |-> FALSE, value |-> defaultValue,
               errors |-> [e EXCEPT ![name] = Bucket(defaultValue)]]
         ELSE [isNone |-> TRUE, value |-> <<>>, errors |-> e]

\* Delete(name)
Delete(e, name) == IF e[name].present THEN [e EXCEPT ![name] = Absent] ELSE e

\* the first loop of Cleanup: the names whose bucket is falsy
EmptyList(e) == {n \in MemNames : e[n].present /\ e[n].bucket = <<>>}

\* a Cleanup that removes nothing
Cleanup_KeepsAll(e) == e

\* Cleanup(): the second loop deletes the names collected by the first
Cleanup(e) == [n \in MemNames |-> IF n \in EmptyList(e) THEN Absent ELSE e[n]]

\* Names()
Names(e) == {n \in MemNames : e[n].present}

\* list.index(second): the 0-based position of the first equal element, or -1
\* where list.index raises ValueError
IndexOf(list, second) ==
    IF \E i \in 1..Len(list) : list[i] = second
    THEN (CHOOSE i \in 1..Len(list) :
             list[i] = second /\ \A j \in 1..(i - 1) : list[j] # second) - 1
    ELSE -1

\* Second(index): self.seconds[index], None on IndexError; a negative index
\* counts from the end of the list
Second(list, index) ==
    IF index >= 0 /\ index < Len(list) THEN [isNone |-> FALSE, value |-> list[index + 1]]
    ELSE IF index < 0 /\ -index <= Len(list)
         THEN [isNone |-> FALSE, value |-> list[Len(list) + index + 1]]
    ELSE [isNone |-> TRUE, value |-> ""]

\* a SecondIndex that appends without looking the key up
SecondIndex_AlwaysAppend(list, second) ==
    [index |-> Len(list), seconds |-> Append(list, second)]

\* SecondIndex(second): the index returned and self.seconds afterwards
SecondIndex(list, second) ==
    IF IndexOf(list, second) >= 0
    THEN [index |-> IndexOf(list, second), seconds |-> list]
    ELSE [index |-> Len(list), seconds |-> Append(list, second)]

NoOp == [op |-> "none", name |-> "", errors0 |-> NoErrors, seconds0 |-> <<>>]

MemIdle ==
    /\ errors = NoErrors
    /\ seconds = <<>>
    /\ internLog = <<>>
    /\ lastOp = NoOp

\* no key hashed yet
NoHash == <<>>

HashIdle ==
    /\ hashKey = <<>>
    /\ hashOut = NoHash

\* a path with no file, and a file with its bytes
NoFile == [exists |-> FALSE, bytes |-> <<>>]
File(bytes) == [exists |-> TRUE, bytes |-> bytes]

NoCall == [op |-> "none", v |-> 0, buffer0 |-> <<>>, raised |-> "", n |-> 0]

WriterIdle ==
    /\ buffer = <<>>
    /\ wState = "new"
    /\ wDisk = NoFile
    /\ wDisk0 = NoFile
    /\ wLast = NoCall

\* the request types of sendUpdateView2Runtime and the values they may carry
ReqTypes == {"view_matrix", "view_width"}
NoValue == 0
ReqValues == {1, 2}

\* requests2Engine = None; the code treats None and {} alike
NoRequests == [ty \in ReqTypes |-> NoValue]

NoMailbox == [exists |-> FALSE, data |-> NoRequests]

TimerIdle ==
    /\ execution_queue = <<>>
    /\ posted = 0
    /\ ran = <<>>
    /\ tick = "idle"
    /\ lastTick = "none"
    /\ timer = "armed"
    /\ requests2Engine = NoRequests
    /\ queued = 0
    /\ everQueued = {}
    /\ blender2runtime = "None"
    /\ mailbox = NoMailbox
    /\ everWritten = {}
    /\ tickStart = [pending |-> NoRequests, mailbox |-> FALSE, path |-> "None"]
    /\ inbox = "absent"

\* the declared defaults of the properties of UrhoExportSettings; modelsPath and
\* animationsPath stand for the seven subfolder paths, which update_subfolders
\* treats alike
DefaultSettings ==
    [updatingProperties |-> FALSE, outputPath |-> <<>>, prefsOutputPath |-> <<>>,
     modelsPath |-> <<>>, animationsPath |-> <<>>,
     addDir |-> FALSE, removeDir |-> FALSE, addSceneDir |-> FALSE,
     selectErrors |-> TRUE, errorsEnum |-> "NONE", merge |-> FALSE,
     onlyDeformBones |-> FALSE, skeletons |-> FALSE, derigify |-> FALSE,
     actionsByFcurves |-> FALSE, animations |-> FALSE, objAnimations |-> FALSE,
     animationSource |-> "USED_ACTIONS",
     geometries |-> TRUE, geometryPos |-> TRUE, geometryNor |-> TRUE, geometryUV |-> FALSE,
     geometryTan |-> FALSE, geometryWei |-> FALSE,
     morphs |-> FALSE, morphNor |-> TRUE, morphTan |-> FALSE]

NoCallback == [name |-> "none", entered |-> DefaultSettings, raised |-> ""]

PanelIdle ==
    /\ exportSettings = DefaultSettings
    /\ changes = 0
    /\ lastCallback = NoCallback

NoRename == [set |-> 0, value |-> <<>>, resolved |-> <<>>, raised |-> ""]

NoListOp == [op |-> "none", index |-> 0, length |-> 0, acted |-> 0, raised |-> ""]

ListIdle ==
    /\ renamed = NoRename
    /\ user_data = <<>>
    /\ list_index_userdata = <<>>
    /\ listOp = NoListOp

HostIdle == TimerIdle /\ PanelIdle /\ ListIdle

UtilIdle ==
    /\ MemIdle
    /\ HashIdle
    /\ WriterIdle
    /\ HostIdle

-----------------------------------------------------------------------------
(* Inputs of the path model                                                *)

MaxCalls == 2

Roots(s) == {<<s, "r", s>>}

Subfolders == {<<>>, <<"m">>, <<"m", Slash, "n">>, <<"m", Backslash, "n">>, <<".", ".">>}

FooBar == <<"f", "o", "o", ".", "b", "a", "r">>

StrNames == {StrName(FooBar), StrName(<<"a", Slash, "b">>), StrName(<<"a", Backslash, "#">>)}

ListNames == {ListName(<<(<<"a">>), (<<"b">>)>>)}

\* FOptions()
DefaultFOptions ==
    [useSubDirs |-> TRUE, fileOverwrite |-> FALSE, paths |-> <<>>, preserveExtTemp |-> FALSE]

\* fOptions.paths with every category in subfolder sub
PathsFor(root, sub) ==
    (PathType.ROOT :> root) @@ [t \in FileTypes |-> sub]

\* what the other parts of the model hold while one part runs
PathIdle ==
    /\ sep = Slash
    /\ fOptions = DefaultFOptions
    /\ callerSet = FALSE
    /\ calls = <<>>

LodIdle ==
    /\ lodsets = <<>>
    /\ lodset_counter = 0
    /\ objects = <<>>
    /\ active_object = 0
    /\ deletedIds = {}
    /\ opError = FALSE

RunIdle ==
    /\ appVersion = <<2, 80, 0>>
    /\ pc = "idle"
    /\ outcome = "none"
    /\ settings = <<>>
    /\ tDataList = <<>>
    /\ unitIdx = 0
    /\ subIdx = 0
    /\ tempObjects = <<>>
    /\ sceneObjects = {}
    /\ processedMeshes = <<>>
    /\ dirs = {}
    /\ files = {}
    /\ files0 = {}
    /\ trace = <<>>

-----------------------------------------------------------------------------
(* Callers of GetFilepath                                                  *)

InitPath ==
    /\ sep \in {Slash, Backslash}
    /\ \E root \in Roots(sep), sub \in Subfolders, usd \in BOOLEAN :
          fOptions = [useSubDirs |-> usd, fileOverwrite |-> FALSE,
                      paths |-> PathsFor(root, sub), preserveExtTemp |-> FALSE]
    /\ callerSet = FALSE
    /\ calls = <<>>
    /\ LodIdle
    /\ RunIdle
    /\ UtilIdle

\* a caller arms the one-shot flag, as the texture export does before its call
SetPreserveExt ==
    /\ Len(calls) < MaxCalls
    /\ ~fOptions.preserveExtTemp
    /\ fOptions' = [fOptions EXCEPT !.preserveExtTemp = TRUE]
    /\ callerSet' = TRUE
    /\ UNCHANGED <<sep, calls>>
    /\ UNCHANGED lodVars
    /\ UNCHANGED runVars
    /\ UNCHANGED utilVars

\* one call GetFilepath(pathType, name, fOptions)
CallGetFilepath ==
    /\ Len(calls) < MaxCalls
    /\ \E pathType \in FileTypes, name \in StrNames \cup ListNames :
          LET g == GetFilepath(pathType, name, fOptions, sep)
          IN  /\ fOptions' = g.fOptions
              /\ calls' = Append(calls, [pathType |-> pathType, name |-> name,
                                         armed |-> callerSet,
                                         flagBefore |-> fOptions.preserveExtTemp,
                                         flagAfter |-> g.fOptions.preserveExtTemp,
                                         result |-> g.result])
              /\ callerSet' = IF g.result.raised = "" THEN FALSE ELSE callerSet
    /\ UNCHANGED sep
    /\ UNCHANGED lodVars
    /\ UNCHANGED runVars
    /\ UNCHANGED utilVars

NextPath == SetPreserveExt \/ CallGetFilepath

SpecPath == InitPath /\ [][NextPath]_vars


-----------------------------------------------------------------------------
(* Properties of GetFilepath                                               *)

\* os.path.basename of a full path
Basename(s, p) == LET parts == Split(p, Separators(s)) IN parts[Len(parts)]

Returned(c) == c.result.raised = ""

C9_NoBackslash ==
    \A i \in 1..Len(calls) :
       Returned(calls[i]) => Backslash \notin Range(calls[i].result.rel)

\* C10: a call whose name is a list or tuple of segments returns without error
\* what the call with the segments joined by os.path.sep returns.
C10_SequenceName ==
    \A i \in 1..Len(calls) :
       calls[i].name.kind = "list" =>
          /\ Returned(calls[i])
          /\ calls[i].result =
                ResolveFilepath(calls[i].pathType,
                                StrName(JoinComps(calls[i].name.segs, sep)),
                                [fOptions EXCEPT !.preserveExtTemp = calls[i].flagBefore],
                                sep)

-----------------------------------------------------------------------------
(* LOD sets (__init__.py, utils.py)                                        *)

NumObjects == 2
MaxLodSets == 3

\* the user objects of the scene
Objects == 1..NumObjects

Digits == <<"0", "1", "2", "3", "4", "5", "6", "7", "8", "9">>

\* str(n) for n >= 0
RECURSIVE Str(_)
Str(n) == IF n < 10 THEN <<Digits[n + 1]>> ELSE Str(n \div 10) \o <<Digits[(n % 10) + 1]>>

\* getLodSetWithID(id, returnIdx=True): position of the first set with that id,
\* counted from 1 here; 0 stands for None
getLodSetWithID(id) ==
    IF \E i \in 1..Len(lodsets) : lodsets[i].lodset_id = id
    THEN CHOOSE i \in 1..Len(lodsets) :
            /\ lodsets[i].lodset_id = id
            /\ \A j \in 1..(i - 1) : lodsets[j].lodset_id # id
    ELSE 0

\* a nextLodSetIDX that numbers a new set by the length of the collection
nextLodSetIDX_ByLength == Len(lodsets) + 1

\* nextLodSetIDX(): the value it returns and stores in lodset_counter
nextLodSetIDX == lodset_counter + 1

\* an object of bpy.data.objects
Object(name, type, data, id) ==
    [name |-> name, type |-> type, data |-> data, lodsetID |-> id,
     display_type |-> "TEXTURED", modifiers |-> <<>>, uid |-> 0]

ObjName(o) == <<"o">> \o Str(o)

\* the mesh data the user objects share
SharedMesh == <<"m">>

\* LODSet.armatureObj left unset (None)
NoArmature == [name |-> <<>>, children |-> <<>>]

\* what bpy.data.worlds[0].lodsets.add() appends, with the id and name
\* OpCreateLodSet then gives it
NewLodSet(id) ==
    [lodset_id |-> id,
     name |-> <<"n", "e", "w", "-", "l", "o", "d", "s", "e", "t", " ">> \o Str(id),
     lods |-> <<>>, lods_idx |-> 0, armatureObj |-> NoArmature]

RemoveAt(seq, i) == SubSeq(seq, 1, i - 1) \o SubSeq(seq, i + 1, Len(seq))

InitLod ==
    /\ lodsets = <<>>
    /\ lodset_counter = 0
    /\ objects = [o \in Objects |-> Object(ObjName(o), "MESH", SharedMesh, 0)]
    /\ active_object \in Objects
    /\ deletedIds = {}
    /\ opError = FALSE
    /\ sep = Slash
    /\ fOptions = DefaultFOptions
    /\ callerSet = FALSE
    /\ calls = <<>>
    /\ RunIdle
    /\ UtilIdle

\* the user makes another object the active one
SelectObject ==
    /\ \E o \in Objects : o # active_object /\ active_object' = o
    /\ opError' = FALSE
    /\ UNCHANGED <<lodsets, lodset_counter, objects, deletedIds>>
    /\ UNCHANGED pathVars
    /\ UNCHANGED runVars
    /\ UNCHANGED utilVars

\* a "new lodset" button that leaves the active object's lodsetID as it is
OpCreateLodSet_NoAssign ==
    /\ lodset_counter < MaxLodSets
    /\ LET id == nextLodSetIDX
       IN  /\ lodsets' = Append(lodsets, NewLodSet(id))
           /\ lodset_counter' = id
    /\ opError' = FALSE
    /\ UNCHANGED <<objects, active_object, deletedIds>>
    /\ UNCHANGED pathVars
    /\ UNCHANGED runVars
    /\ UNCHANGED utilVars

\* the "new lodset" button
OpCreateLodSet ==
    /\ lodset_counter < MaxLodSets
    /\ LET id == nextLodSetIDX
       IN  /\ lodsets' = Append(lodsets, NewLodSet(id))
           /\ lodset_counter' = id
           /\ objects' = [objects EXCEPT ![active_object].lodsetID = id]
    /\ opError' = FALSE
    /\ UNCHANGED <<active_object, deletedIds>>
    /\ UNCHANGED pathVars
    /\ UNCHANGED runVars
    /\ UNCHANGED utilVars

\* the "DELETE current" button: lodsets.remove(None) raises when the active
\* object's lodsetID matches no set
OpDeleteLodSet ==
    /\ LET idx == getLodSetWithID(objects[active_object].lodsetID)
       IN  IF idx = 0
           THEN /\ opError' = TRUE
                /\ UNCHANGED <<lodsets, deletedIds>>
           ELSE /\ lodsets' = RemoveAt(lodsets, idx)
                /\ deletedIds' = deletedIds \cup {lodsets[idx].lodset_id}
                /\ opError' = FALSE
    /\ UNCHANGED <<lodset_counter, objects, active_object>>
    /\ UNCHANGED pathVars
    /\ UNCHANGED runVars
    /\ UNCHANGED utilVars

\* the recursion depth at which Python raises RecursionError
RecursionLimit == 3

\* lodsetNameExists(name)
lodsetNameExists(name) == \E i \in 1..Len(lodsets) : lodsets[i].name = name

\* the loop of lines 607-608: value is suffixed with '_' while a set has it
RECURSIVE Suffixed(_)
Suffixed(value) == IF lodsetNameExists(value) THEN Suffixed(value \o <<"_">>) ELSE value

\* setLodSetDataName(self, value), entered at recursion depth depth: line 609
\* assigns self.lodset_name, the property that has this very function as its
\* setter, so the function is entered again with the suffixed value; nothing
\* is ever stored in self.name
RECURSIVE setLodSetDataName(_, _, _)
setLodSetDataName(self, value, depth) ==
    IF depth >= RecursionLimit
    THEN [lodsets |-> lodsets, raised |-> "RecursionError"]
    ELSE setLodSetDataName(self, Suffixed(value), depth + 1)

\* the names a script or the UI may assign to lodset_name
NameOffers == {<<"x">>, NewLodSet(1).name}

\* lodset.lodset_name = value for one of the existing sets
SetLodsetName ==
    /\ \E i \in 1..Len(lodsets), value \in NameOffers :
       \E r \in {setLodSetDataName(i, value, 0)} :
          /\ lodsets' = r.lodsets
          /\ renamed' = [set |-> lodsets[i].lodset_id, value |-> value,
                         resolved |-> Suffixed(value), raised |-> r.raised]
    /\ opError' = FALSE
    /\ UNCHANGED <<lodset_counter, objects, active_object, deletedIds>>
    /\ UNCHANGED pathVars
    /\ UNCHANGED runVars
    /\ UNCHANGED <<memVars, hashVars, writerVars, timerVars, panelVars>>
    /\ UNCHANGED <<user_data, list_index_userdata, listOp>>

NextLod == SelectObject \/ OpCreateLodSet \/ OpDeleteLodSet \/ SetLodsetName

SpecLod == InitLod /\ [][NextLod]_vars

\* C4: LOD id monotonicity. Over any sequence of OpCreateLodSet and
\* OpDeleteLodSet, no two existing LOD sets have the same lodset_id, no
\* existing set has the id of a deleted set, and lodset_counter never decreases.
C4_LodIdMonotonic ==
    /\ [](/\ \A i, j \in 1..Len(lodsets) :
               i # j => lodsets[i].lodset_id # lodsets[j].lodset_id
          /\ \A i \in 1..Len(lodsets) :
               /\ lodsets[i].lodset_id \notin deletedIds
               /\ lodsets[i].lodset_id <= lodset_counter
          /\ \A d \in deletedIds : d <= lodset_counter)
    /\ [][lodset_counter' >= lodset_counter]_vars

\* C4 witness: two sets were created and deleted and a third one exists.
C4_Witness ==
    /\ Cardinality(deletedIds) >= 2
    /\ Len(lodsets) >= 1
    /\ lodset_counter >= 3

\* C19: dangling LOD-set ids. No operator run on an object whose lodsetID
\* matches no existing LOD set ends with an exception.
C19_DanglingTolerated ==
    getLodSetWithID(objects[active_object].lodsetID) = 0 => ~opError

-----------------------------------------------------------------------------
(* The export run: ExecuteAddon and ExecuteUrhoExport (__init__.py)        *)

\* lodsetID of a temporary LOD object
TempLodsetID == -2

\* LODData.decimate is a float in [0, 1]; the model counts it in thousandths
DecimateOne == 1000

\* a version test that lets every version pass
VersionLess_Never(a, b) == FALSE

\* tuple comparison a < b of two version triples
VersionLess(a, b) ==
    \/ a[1] < b[1]
    \/ (a[1] = b[1] /\ a[2] < b[2])
    \/ (a[1] = b[1] /\ a[2] = b[2] /\ a[3] < b[3])

MinVersion == <<2, 70, 0>>

\* str.zfill(width)
RECURSIVE Zfill(_, _)
Zfill(str, width) == IF Len(str) >= width THEN str ELSE Zfill(<<"0">> \o str, width)

\* "%s_LOD%s" % (lodset.name, str(lod.distance).zfill(3))
TempName(lodset, lod) ==
    lodset.name \o <<"_", "L", "O", "D">> \o Zfill(Str(lod.distance), 3)

HasArmature(lodset) == lodset.armatureObj.name # <<>>

\* a temporary object that gets the armature modifier whatever firstLOD is
NewTempObject_ArmatureOnAll(lodset, lod, firstLOD, uid) ==
    LET base == IF HasArmature(lodset) THEN lodset.armatureObj.children[1]
                ELSE Object(<<>>, "MESH", <<>>, 0)
    IN  [base EXCEPT !.name = TempName(lodset, lod), !.data = lod.meshObj,
                     !.lodsetID = TempLodsetID, !.uid = uid,
                     !.modifiers = IF HasArmature(lodset)
                                   THEN Append(base.modifiers, "__lod_armature")
                                   ELSE base.modifiers]

\* the temporary object made for one LOD entry that has a mesh: a copy of the
\* armature's first child, or a new object around the mesh; then the sentinel
\* and the modifiers
NewTempObject(lodset, lod, firstLOD, uid) ==
    LET base == IF HasArmature(lodset) THEN lodset.armatureObj.children[1]
                ELSE Object(<<>>, "MESH", <<>>, 0)
        withArma == IF HasArmature(lodset) /\ firstLOD
                    THEN Append(base.modifiers, "__lod_armature")
                    ELSE base.modifiers
        withDecimate == IF lod.decimate < DecimateOne /\ ~HasArmature(lodset)
                        THEN Append(withArma, "__decimate")
                        ELSE withArma
    IN  [base EXCEPT !.name = TempName(lodset, lod), !.data = lod.meshObj,
                     !.lodsetID = TempLodsetID, !.modifiers = withDecimate, !.uid = uid]

\* the loop over the LOD sets and their LOD entries, from entry j of set i on:
\* the objects created, and the exception that ended the loop, if any
\* (armaObj.children[0] on an armature without children)
RECURSIVE AssembleLods(_, _, _, _, _)
AssembleLods(sets, i, j, firstLOD, acc) ==
    IF i > Len(sets) THEN [objs |-> acc, raised |-> ""]
    ELSE IF j > Len(sets[i].lods) THEN AssembleLods(sets, i + 1, 1, TRUE, acc)
    ELSE IF sets[i].lods[j].meshObj = <<>> THEN AssembleLods(sets, i, j + 1, firstLOD, acc)
    ELSE IF HasArmature(sets[i]) /\ sets[i].armatureObj.children = <<>>
         THEN [objs |-> acc, raised |-> "IndexError"]
    ELSE AssembleLods(sets, i, j + 1, FALSE,
                      Append(acc, NewTempObject(sets[i], sets[i].lods[j], firstLOD,
                                                Len(acc) + 1)))

\* bpy.data.objects[name]: the user objects and the temporary objects; the
\* result is a set with the object, or empty where the lookup raises KeyError
Lookup(name) ==
    {objects[o] : o \in {x \in DOMAIN objects : objects[x].name = name}}
        \cup {tempObjects[k] : k \in {x \in 1..Len(tempObjects) : tempObjects[x].name = name}}

\* lines 2770-2791: obj, uModel.isEmpty and uModel.meshName for a model named
\* uName; any exception inside the try block falls back to the model's own name
ResolveMeshName(uName) ==
    IF Lookup(uName) = {}
    THEN [objFound |-> FALSE, isEmpty |-> FALSE, meshName |-> uName]
    ELSE LET obj == CHOOSE o \in Lookup(uName) : TRUE
             isEmpty == \/ obj.type = "EMPTY"
                        \/ (settings.wiredAsEmpty /\ obj.display_type = "WIRE")
         IN  IF isEmpty THEN [objFound |-> TRUE, isEmpty |-> TRUE, meshName |-> obj.name]
             ELSE IF obj.lodsetID > 0
                  THEN IF getLodSetWithID(obj.lodsetID) = 0
                       THEN [objFound |-> TRUE, isEmpty |-> FALSE, meshName |-> uName]
                       ELSE [objFound |-> TRUE, isEmpty |-> FALSE,
                             meshName |-> lodsets[getLodSetWithID(obj.lodsetID)].name]
             ELSE IF settings.meshnameDerivedBy = "Object"
                  THEN [objFound |-> TRUE, isEmpty |-> FALSE, meshName |-> uName]
             ELSE [objFound |-> TRUE, isEmpty |-> FALSE, meshName |-> obj.data]

InList(x, list) == \E k \in 1..Len(list) : list[k] = x

\* line 2802: obj==None or (not isEmpty and (meshName not in processedMeshes or hasLODs))
ShouldWriteModel(objFound, isEmpty, meshName, processed, hasLODs) ==
    ~objFound \/ (~isEmpty /\ (~InList(meshName, processed) \/ hasLODs))

FileExists(fs, path) == \E f \in fs : f.path = path

\* CheckFilepath(fileFullPath, fOptions) with directories ds and files fs on
\* disk; mkdirOk says whether os.makedirs succeeds. When it fails, formatting
\* the exception with {:s} inside the handler raises TypeError.
CheckFilepath(fileFullPath, fo, ds, fs, s, mkdirOk) ==
    LET fullPath == Dirname(s, fileFullPath)
        missing == fullPath \notin ds
    IN  IF missing /\ ~mkdirOk
        THEN [raised |-> "TypeError", result |-> "raised", dirs |-> ds]
        ELSE IF FileExists(fs, fileFullPath) /\ ~fo.fileOverwrite
             THEN [raised |-> "", result |-> "False", dirs |-> ds \cup {fullPath}]
        ELSE [raised |-> "", result |-> "True", dirs |-> ds \cup {fullPath}]

\* whether os.makedirs can be asked at all for this path
MkdirChoices(fileFullPath, ds, s) ==
    IF Dirname(s, fileFullPath) \in ds THEN {TRUE} ELSE BOOLEAN

CheckEvent(kind, unit, path, fs, c) ==
    [op |-> "check", kind |-> kind, unit |-> unit, path |-> path,
     existed |-> FileExists(fs, path), result |-> c.result]

WriteEvent(kind, unit, path, wr) ==
    [op |-> "write", kind |-> kind, unit |-> unit, path |-> path,
     existed |-> FALSE, result |-> wr]

\* the file system after a writer ran on path: the whole content, or nothing
\* changed when the file could not be opened
WriteFile(fs, path, kind, unit, wr) ==
    IF wr = "ok"
    THEN {f \in fs : f.path # path} \cup {[path |-> path, kind |-> kind, unit |-> unit]}
    ELSE fs

WriteOutcomes == {"ok", "openFailed"}

\* a write that happens whatever CheckFilepath returned
GatedWrite_Ungated(kind, unit, path, c, wr, fs) ==
    [files |-> WriteFile(fs, path, kind, unit, wr), events |-> <<WriteEvent(kind, unit, path, wr)>>]

\* "if CheckFilepath(...): write": the writer runs only on a True result
GatedWrite(kind, unit, path, c, wr, fs) ==
    IF c.result = "True"
    THEN [files |-> WriteFile(fs, path, kind, unit, wr),
          events |-> <<WriteEvent(kind, unit, path, wr)>>]
    ELSE [files |-> fs, events |-> <<>>]

\* a position function that returns to the first model of the current unit
NextPos_Stay(units, u, phase, i) ==
    IF u <= Len(units) /\ phase = "models" /\ Len(units[u].models) >= 1
    THEN [pc |-> "models", unit |-> u, sub |-> 1]
    ELSE [pc |-> "scene", unit |-> 0, sub |-> 0]

\* the first model, animation or texture at or after position (u, phase, i) of
\* the nested loops over tDataList, or the scene stage when there is none
RECURSIVE NextPos(_, _, _, _)
NextPos(units, u, phase, i) ==
    IF u > Len(units) THEN [pc |-> "scene", unit |-> 0, sub |-> 0]
    ELSE IF phase = "models"
         THEN IF i <= Len(units[u].models) THEN [pc |-> "models", unit |-> u, sub |-> i]
              ELSE NextPos(units, u, "animations", 1)
    ELSE IF phase = "animations"
         THEN IF i <= Len(units[u].animations)
              THEN [pc |-> "animations", unit |-> u, sub |-> i]
              ELSE NextPos(units, u, "materials", 1)
    ELSE IF i <= Len(units[u].textures) THEN [pc |-> "materials", unit |-> u, sub |-> i]
    ELSE NextPos(units, u + 1, "models", 1)

-----------------------------------------------------------------------------
(* Inputs of the export run                                                *)

RunRoot == <<Slash, "r", Slash>>

Lod(mesh, distance, decimate) == [meshObj |-> mesh, distance |-> distance, decimate |-> decimate]

LodSet(id, name, lods, arma) ==
    [lodset_id |-> id, name |-> name, lods |-> lods, lods_idx |-> 0, armatureObj |-> arma]

\* an armature and the mesh object it deforms, which carries the Armature
\* modifier of its own that firstChild.copy() copies
ArmatureWithChild ==
    [name |-> <<"a", "r">>,
     children |-> <<[Object(<<"c">>, "MESH", SharedMesh, 0)
                        EXCEPT !.modifiers = <<"Armature">>]>>]

ArmatureNoChildren == [name |-> <<"a", "r">>, children |-> <<>>]

\* the LOD sets of the scene: none; one set of two decimated levels; one set
\* bound to an armature, its second entry without mesh; a plain set followed
\* by a set whose armature has no child object
LodSetConfigs ==
    {<<>>,
     <<LodSet(1, <<"s">>, <<Lod(SharedMesh, 0, 1000), Lod(<<"k">>, 10, 500)>>, NoArmature)>>,
     <<LodSet(1, <<"s">>, <<Lod(SharedMesh, 0, 1000), Lod(<<>>, 10, 1000)>>, ArmatureWithChild)>>,
     <<LodSet(1, <<"s">>, <<Lod(SharedMesh, 0, 1000)>>, NoArmature),
       LodSet(2, <<"t">>, <<Lod(SharedMesh, 0, 1000)>>, ArmatureNoChildren)>>,
     <<LodSet(1, <<"s">>, <<Lod(<<>>, 0, 1000), Lod(SharedMesh, 10, 500),
                            Lod(<<"k">>, 20, 500)>>, ArmatureWithChild)>>}

\* the user objects: all meshes outside any LOD set; all meshes in LOD set 1;
\* an empty and meshes whose lodsetID matches no set
ObjectConfigs ==
    {[o \in Objects |-> Object(ObjName(o), "MESH", SharedMesh, 0)],
     [o \in Objects |-> Object(ObjName(o), "MESH", SharedMesh, 1)],
     [o \in Objects |-> IF o = 1 THEN Object(ObjName(o), "EMPTY", <<>>, 0)
                        ELSE Object(ObjName(o), "MESH", SharedMesh, 5)]}

Model(name, geometries) == [name |-> name, geometries |-> geometries]
Animation(name, triggers) == [name |-> name, triggers |-> triggers]
Texture(name, filename, image) == [name |-> name, filename |-> filename, image |-> image]

Unit(objectName, hasLODs, models, animations, textures) ==
    [objectName |-> objectName, hasLODs |-> hasLODs, models |-> models,
     animations |-> animations, textures |-> textures]

\* the unit of user object o
ObjUnit(o, h) == Unit(ObjName(o), h, <<Model(ObjName(o), TRUE)>>, <<>>, <<>>)

\* a unit whose model name is the name of no object
NamedUnit(name, h) == Unit(name, h, <<Model(name, TRUE)>>, <<>>, <<>>)

PngName == <<"t", ".", "p", "n", "g">>

\* what Scan may deliver: tDataList
UnitLists(h) ==
    {<<>>,
     <<ObjUnit(1, h), ObjUnit(2, h)>>,
     <<ObjUnit(1, h), NamedUnit(SharedMesh, h)>>,
     <<NamedUnit(SharedMesh, h), NamedUnit(SharedMesh, h)>>,
     <<Unit(ObjName(1), h, <<Model(ObjName(1), TRUE)>>,
            <<Animation(<<"w">>, TRUE), Animation(<<"v">>, FALSE)>>,
            <<Texture(<<"t">>, PngName, "file")>>)>>,
     <<Unit(ObjName(2), h, <<Model(ObjName(2), FALSE)>>, <<>>,
            <<Texture(<<"p">>, <<"p">>, "packed"), Texture(<<"q">>, <<"q">>, "nosrc"),
              Texture(<<"u">>, <<"u">>, "missing")>>)>>}

\* lines 2657-2668: fOptions as the run fills it from the settings
RunFOptions(st) ==
    [useSubDirs |-> st.useSubDirs, fileOverwrite |-> st.fileOverwrite,
     paths |-> (PathType.ROOT :> st.outputPath) @@ (PathType.MODELS :> st.modelsPath)
                 @@ (PathType.ANIMATIONS :> st.animationsPath)
                 @@ (PathType.TRIGGERS :> st.animationsPath)
                 @@ (PathType.TEXTURES :> st.texturesPath),
     preserveExtTemp |-> FALSE]

Settings(outputPath, useSubDirs, fileOverwrite, textures, derivedBy) ==
    [outputPath |-> outputPath, useSubDirs |-> useSubDirs, fileOverwrite |-> fileOverwrite,
     textures |-> textures, meshnameDerivedBy |-> derivedBy, wiredAsEmpty |-> FALSE,
     modelsPath |-> <<"m">>, animationsPath |-> <<"n">>, texturesPath |-> <<"t">>]

\* the output directories of a configuration
OutDirs(st, s) ==
    {Dirname(s, ResolveFilepath(pt, StrName(<<"x">>), RunFOptions(st), s).full) : pt \in FileTypes}

\* model files left by an earlier export
OldFiles(st, s) ==
    {[path |-> ResolveFilepath(PathType.MODELS, StrName(n), RunFOptions(st), s).full,
      kind |-> "old", unit |-> 0] : n \in {SharedMesh, <<"s">>, ObjName(1)}}

InitRun ==
    /\ sep = Slash
    /\ fOptions = DefaultFOptions
    /\ callerSet = FALSE
    /\ calls = <<>>
    /\ lodsets \in LodSetConfigs
    /\ lodset_counter = 2
    /\ objects \in ObjectConfigs
    /\ active_object = 1
    /\ deletedIds = {}
    /\ opError = FALSE
    /\ appVersion \in {<<2, 69, 0>>, <<2, 80, 0>>}
    /\ pc = "start"
    /\ outcome = "none"
    /\ \E outputPath \in {<<>>, RunRoot}, usd \in BOOLEAN, ow \in BOOLEAN, tex \in BOOLEAN,
          derivedBy \in {"Object", "Mesh"} :
          settings = Settings(outputPath, usd, ow, tex, derivedBy)
    /\ tDataList = <<>>
    /\ unitIdx = 0
    /\ subIdx = 0
    /\ tempObjects = <<>>
    /\ sceneObjects = {}
    /\ processedMeshes = <<>>
    /\ \/ dirs = {} /\ files = {}
       \/ dirs = OutDirs(settings, sep) /\ files = {}
       \/ dirs = OutDirs(settings, sep) /\ files = OldFiles(settings, sep)
    /\ files0 = files
    /\ trace = <<>>
    /\ UtilIdle

-----------------------------------------------------------------------------
(* The stages of the run                                                   *)

GoTo(pos) ==
    /\ pc' = pos.pc
    /\ unitIdx' = pos.unit
    /\ subIdx' = pos.sub

\* an exception leaves ExecuteUrhoExport and, uncaught, ExecuteAddon
Raise ==
    /\ pc' = "done"
    /\ outcome' = "raised"
    /\ UNCHANGED <<unitIdx, subIdx>>

\* lines 2541-2679: the version check, the options, the output path check
Validate ==
    /\ pc = "start"
    /\ IF VersionLess(appVersion, MinVersion)
       THEN /\ pc' = "cleanup"
            /\ outcome' = "false"
            /\ UNCHANGED fOptions
       ELSE /\ fOptions' = RunFOptions(settings)
            /\ IF settings.outputPath = <<>>
               THEN pc' = "cleanup" /\ outcome' = "false"
               ELSE pc' = "lods" /\ UNCHANGED outcome
    /\ UNCHANGED <<sep, callerSet, calls>>
    /\ UNCHANGED lodVars
    /\ UNCHANGED utilVars
    /\ UNCHANGED <<appVersion, settings, tDataList, unitIdx, subIdx, tempObjects, sceneObjects,
                   processedMeshes, dirs, files, files0, trace>>

\* lines 2686-2736: one temporary object per LOD entry with a mesh, appended
\* to tempObjects and linked into the scene collection
AssembleLODs ==
    /\ pc = "lods"
    /\ LET a == AssembleLods(lodsets, 1, 1, TRUE, <<>>)
       IN  /\ tempObjects' = tempObjects \o a.objs
           /\ sceneObjects' = sceneObjects \cup Range(a.objs)
           /\ IF a.raised # ""
              THEN Raise
              ELSE pc' = "scan" /\ UNCHANGED <<outcome, unitIdx, subIdx>>
    /\ UNCHANGED pathVars
    /\ UNCHANGED lodVars
    /\ UNCHANGED utilVars
    /\ UNCHANGED <<appVersion, settings, tDataList, processedMeshes, dirs, files, files0, trace>>

\* lines 2740-2744: Scan fills tDataList; processedMeshes starts empty
Decompose ==
    /\ pc = "scan"
    /\ \E h \in BOOLEAN : \E units \in UnitLists(h) :
          /\ tDataList' = units
          /\ GoTo(NextPos(units, 1, "models", 1))
    /\ processedMeshes' = <<>>
    /\ UNCHANGED pathVars
    /\ UNCHANGED lodVars
    /\ UNCHANGED utilVars
    /\ UNCHANGED <<appVersion, outcome, settings, tempObjects, sceneObjects, dirs, files,
                   files0, trace>>

\* the writers that end in BinaryFileWriter.close or WriteXmlFile: when the file
\* cannot be opened, formatting the exception with {:s} inside the handler
\* raises TypeError. A texture copy that fails is caught and logged (line 2862).
RaisingWriters == {"model", "animation", "triggers"}

\* "if CheckFilepath(path, fOptions): write" on directories ds and files fs:
\* what it leaves on disk and what it adds to the trace
CheckedWrite(kind, unit, path, fo, ds, fs, s, mkdirOk, wr) ==
    LET c == CheckFilepath(path, fo, ds, fs, s, mkdirOk)
        w == GatedWrite(kind, unit, path, c, wr, fs)
        writerRaised == c.result = "True" /\ wr = "openFailed" /\ kind \in RaisingWriters
    IN  [raised |-> c.raised # "" \/ writerRaised,
         result |-> c.result, dirs |-> c.dirs, files |-> w.files,
         events |-> <<CheckEvent(kind, unit, path, fs, c)>> \o w.events]

\* "if CheckFilepath(path, fOptions):" around a branch that writes nothing (the
\* source texture is missing, line 2857)
CheckedSkip(kind, unit, path, fo, ds, fs, s, mkdirOk) ==
    LET c == CheckFilepath(path, fo, ds, fs, s, mkdirOk)
    IN  [raised |-> c.raised # "", result |-> c.result, dirs |-> c.dirs, files |-> fs,
         events |-> <<CheckEvent(kind, unit, path, fs, c)>>]

\* lines 2769-2809: one model of the current unit
ExportModel ==
    /\ pc = "models"
    /\ \E r \in {ResolveMeshName(tDataList[unitIdx].models[subIdx].name)} :
       \E g \in {GetFilepath(PathType.MODELS, StrName(r.meshName), fOptions, sep)} :
       \E next \in {NextPos(tDataList, unitIdx, "models", subIdx + 1)} :
          /\ fOptions' = g.fOptions
          /\ IF /\ ShouldWriteModel(r.objFound, r.isEmpty, r.meshName, processedMeshes,
                                    tDataList[unitIdx].hasLODs)
                /\ tDataList[unitIdx].models[subIdx].geometries
             THEN \E mkdirOk \in MkdirChoices(g.result.full, dirs, sep), wr \in WriteOutcomes :
                  \E w \in {CheckedWrite("model", unitIdx, g.result.full, g.fOptions, dirs,
                                         files, sep, mkdirOk, wr)} :
                     /\ trace' = trace \o w.events
                     /\ IF w.raised
                        THEN Raise /\ dirs' = w.dirs /\ files' = w.files /\ UNCHANGED processedMeshes
                        ELSE /\ dirs' = w.dirs
                             /\ files' = w.files
                             /\ processedMeshes' = IF w.result = "True"
                                                   THEN Append(processedMeshes, r.meshName)
                                                   ELSE processedMeshes
                             /\ GoTo(next)
                             /\ UNCHANGED outcome
             ELSE /\ GoTo(next)
                  /\ UNCHANGED <<outcome, dirs, files, processedMeshes, trace>>
    /\ UNCHANGED <<sep, callerSet, calls>>
    /\ UNCHANGED lodVars
    /\ UNCHANGED utilVars
    /\ UNCHANGED <<appVersion, settings, tDataList, tempObjects, sceneObjects, files0>>

\* lines 2811-2823: one animation of the current unit, then its triggers
ExportAnimation ==
    /\ pc = "animations"
    /\ \E uAnimation \in {tDataList[unitIdx].animations[subIdx]} :
       \E g1 \in {GetFilepath(PathType.ANIMATIONS, StrName(uAnimation.name), fOptions, sep)} :
       \E next \in {NextPos(tDataList, unitIdx, "animations", subIdx + 1)} :
       \E mk1 \in MkdirChoices(g1.result.full, dirs, sep), wr1 \in WriteOutcomes :
       \E w1 \in {CheckedWrite("animation", unitIdx, g1.result.full, g1.fOptions, dirs, files,
                               sep, mk1, wr1)} :
          IF w1.raised \/ ~uAnimation.triggers
          THEN /\ trace' = trace \o w1.events
               /\ fOptions' = g1.fOptions
               /\ IF w1.raised
                  THEN Raise /\ dirs' = w1.dirs /\ files' = w1.files
                  ELSE /\ dirs' = w1.dirs
                       /\ files' = w1.files
                       /\ GoTo(next)
                       /\ UNCHANGED outcome
          ELSE \E g2 \in {GetFilepath(PathType.TRIGGERS, StrName(uAnimation.name), g1.fOptions,
                                      sep)} :
               \E mk2 \in MkdirChoices(g2.result.full, w1.dirs, sep), wr2 \in WriteOutcomes :
               \E w2 \in {CheckedWrite("triggers", unitIdx, g2.result.full, g2.fOptions, w1.dirs,
                                       w1.files, sep, mk2, wr2)} :
                  /\ trace' = trace \o w1.events \o w2.events
                  /\ fOptions' = g2.fOptions
                  /\ IF w2.raised
                     THEN /\ dirs' = w2.dirs
                          /\ files' = w2.files
                          /\ Raise
                     ELSE /\ dirs' = w2.dirs
                          /\ files' = w2.files
                          /\ GoTo(next)
                          /\ UNCHANGED outcome
    /\ UNCHANGED <<sep, callerSet, calls>>
    /\ UNCHANGED lodVars
    /\ UNCHANGED utilVars
    /\ UNCHANGED <<appVersion, settings, tDataList, tempObjects, sceneObjects, processedMeshes,
                   files0>>

\* lines 2825-2864: one texture of the current unit's materials. added is the
\* answer of uScene.AddFile: whether the texture was not registered before.
ExportTexture ==
    /\ pc = "materials"
    /\ \E tex \in {tDataList[unitIdx].textures[subIdx]} :
       \E next \in {NextPos(tDataList, unitIdx, "materials", subIdx + 1)} :
          IF tex.image = "missing"
          THEN Raise /\ UNCHANGED <<fOptions, dirs, files, trace>>
          ELSE \E g \in {GetFilepath(PathType.TEXTURES, StrName(tex.filename),
                                     [fOptions EXCEPT !.preserveExtTemp = TRUE], sep)} :
               \E added \in BOOLEAN :
                  /\ fOptions' = g.fOptions
                  /\ IF ~added \/ ~settings.textures
                     THEN GoTo(next) /\ UNCHANGED <<outcome, dirs, files, trace>>
                     ELSE \E mkdirOk \in MkdirChoices(g.result.full, dirs, sep),
                             wr \in WriteOutcomes :
                          \E w \in {IF tex.image = "nosrc"
                                    THEN CheckedSkip("texture", unitIdx, g.result.full,
                                                     g.fOptions, dirs, files, sep, mkdirOk)
                                    ELSE CheckedWrite("texture", unitIdx, g.result.full,
                                                      g.fOptions, dirs, files, sep, mkdirOk,
                                                      wr)} :
                             /\ trace' = trace \o w.events
                             /\ IF w.raised
                                THEN Raise /\ dirs' = w.dirs /\ files' = w.files
                                ELSE /\ dirs' = w.dirs
                                     /\ files' = w.files
                                     /\ GoTo(next)
                                     /\ UNCHANGED outcome
    /\ UNCHANGED <<sep, callerSet, calls>>
    /\ UNCHANGED lodVars
    /\ UNCHANGED utilVars
    /\ UNCHANGED <<appVersion, settings, tDataList, tempObjects, sceneObjects, processedMeshes,
                   files0>>

\* lines 2878-2885: the error ledger is pruned, the scene is exported, the run
\* returns True
WriteScene ==
    /\ pc = "scene"
    /\ pc' = "cleanup"
    /\ outcome' = "true"
    /\ UNCHANGED pathVars
    /\ UNCHANGED lodVars
    /\ UNCHANGED utilVars
    /\ UNCHANGED <<appVersion, settings, tDataList, unitIdx, subIdx, tempObjects, sceneObjects,
                   processedMeshes, dirs, files, files0, trace>>

\* lines 2893-2900 of ExecuteAddon, reached when ExecuteUrhoExport returned
CleanupTemporaries ==
    /\ pc = "cleanup"
    /\ sceneObjects' = sceneObjects \ Range(tempObjects)
    /\ tempObjects' = <<>>
    /\ pc' = "done"
    /\ UNCHANGED pathVars
    /\ UNCHANGED lodVars
    /\ UNCHANGED utilVars
    /\ UNCHANGED <<appVersion, outcome, settings, tDataList, unitIdx, subIdx, processedMeshes,
                   dirs, files, files0, trace>>

Next ==
    \/ Validate
    \/ AssembleLODs
    \/ Decompose
    \/ ExportModel
    \/ ExportAnimation
    \/ ExportTexture
    \/ WriteScene
    \/ CleanupTemporaries

Init == InitRun

Spec == Init /\ [][Next]_vars

-----------------------------------------------------------------------------
(* Properties of the export run, checked on Spec                           *)

\* the positions of the trace where a writer was called for a model file
ModelWrites == {i \in DOMAIN trace : trace[i].op = "write" /\ trace[i].kind = "model"}

\* the full path GetFilepath gives the model file of mesh name n in this run
ModelPath(n) == ResolveFilepath(PathType.MODELS, StrName(n), RunFOptions(settings), sep).full

\* the mesh name line 2770-2791 gives model k of unit u
MeshNameOf(u, k) == ResolveMeshName(tDataList[u].models[k].name).meshName

\* the models of the run that carry geometry and belong to no empty object,
\* as pairs of unit index and model index
WritableModels ==
    {m \in UNION {{<<u, k>> : k \in DOMAIN tDataList[u].models} : u \in DOMAIN tDataList} :
        /\ tDataList[m[1]].models[m[2]].geometries
        /\ ~ResolveMeshName(tDataList[m[1]].models[m[2]].name).isEmpty}

\* C1: cleanup invariant. Once ExecuteAddon is over, however ExecuteUrhoExport
\* ended, tempObjects is empty and no object with lodsetID -2 is linked in the
\* scene.
C1_CleanupInvariant ==
    pc = "done" =>
        /\ tempObjects = <<>>
        /\ \A o \in sceneObjects : o.lodsetID # TempLodsetID

\* C2: dedup. In a run into an empty directory that reached the scene stage,
\* the model file of every mesh name of the units without LODs was handed to
\* the model writer exactly once, whether or not the object was found.
C2_WrittenExactlyOnce ==
    (pc = "scene" /\ files0 = {}) =>
        \A m \in WritableModels :
            ~tDataList[m[1]].hasLODs =>
                Cardinality({i \in ModelWrites :
                                trace[i].path = ModelPath(MeshNameOf(m[1], m[2]))}) = 1

\* C3: LOD re-export. In a run into an empty directory that reached the scene
\* stage, every unit with LODs whose model resolves to the name of a LOD set
\* had its model written, for either value of fileOverwrite.
C3_EveryLodLevelWritten ==
    (pc = "scene" /\ files0 = {}) =>
        \A m \in WritableModels :
            (/\ tDataList[m[1]].hasLODs
             /\ \E s \in DOMAIN lodsets : lodsets[s].name = MeshNameOf(m[1], m[2]))
                => \E i \in ModelWrites : trace[i].unit = m[1]

\* C5: overwrite gate. Every CheckFilepath call of the run answered False when
\* the file existed and fileOverwrite was off, and then no write followed;
\* it answered True when the file existed and fileOverwrite was on, and True
\* when the file did not exist.
C5_OverwriteGate ==
    \A i \in DOMAIN trace :
        trace[i].op = "check" =>
            /\ (trace[i].existed /\ ~settings.fileOverwrite) =>
                  /\ trace[i].result = "False"
                  /\ (i < Len(trace) => trace[i + 1].op # "write")
            /\ (trace[i].existed /\ settings.fileOverwrite) => trace[i].result = "True"
            /\ ~trace[i].existed => trace[i].result = "True"

\* C6: write gate ordering. Every call of a writer comes directly after a
\* CheckFilepath call on the same full path that returned True, and no writer
\* is called on a path once CheckFilepath returned False for it.
C6_WriteGateOrdering ==
    /\ \A i \in DOMAIN trace :
          trace[i].op = "write" =>
              /\ i > 1
              /\ trace[i - 1].op = "check"
              /\ trace[i - 1].path = trace[i].path
              /\ trace[i - 1].result = "True"
    /\ \A i, j \in DOMAIN trace :
          (/\ i < j
           /\ trace[i].op = "check"
           /\ trace[i].result = "False"
           /\ trace[j].op = "write") => trace[j].path # trace[i].path

\* C6 witness: a run in which one artifact was refused and a later one written.
C6_Witness ==
    \E i, j \in DOMAIN trace :
        /\ i < j
        /\ trace[i].op = "check"
        /\ trace[i].result = "False"
        /\ trace[j].op = "write"

-----------------------------------------------------------------------------
(* The error ledger under any sequence of its operations                   *)

MaxInternCalls == 3

InitMem ==
    /\ PathIdle
    /\ LodIdle
    /\ RunIdle
    /\ MemIdle
    /\ HashIdle
    /\ WriterIdle
    /\ HostIdle

Did(op, name) == [op |-> op, name |-> name, errors0 |-> errors, seconds0 |-> seconds]

MemFrame ==
    /\ UNCHANGED pathVars
    /\ UNCHANGED lodVars
    /\ UNCHANGED runVars
    /\ UNCHANGED hashVars
    /\ UNCHANGED writerVars
    /\ UNCHANGED hostVars

MemGet ==
    /\ \E name \in MemNames, hasDefault \in BOOLEAN, defaultValue \in Buckets :
          /\ errors' = Get(errors, name, hasDefault, defaultValue).errors
          /\ lastOp' = Did("Get", name)
    /\ UNCHANGED <<seconds, internLog>>
    /\ MemFrame

MemDelete ==
    /\ \E name \in MemNames :
          /\ errors' = Delete(errors, name)
          /\ lastOp' = Did("Delete", name)
    /\ UNCHANGED <<seconds, internLog>>
    /\ MemFrame

MemCleanup ==
    /\ errors' = Cleanup(errors)
    /\ lastOp' = Did("Cleanup", "")
    /\ UNCHANGED <<seconds, internLog>>
    /\ MemFrame

MemClear ==
    /\ errors' = NoErrors
    /\ seconds' = <<>>
    /\ internLog' = <<>>
    /\ lastOp' = Did("Clear", "")
    /\ MemFrame

MemSecondIndex ==
    /\ Len(internLog) < MaxInternCalls
    /\ \E second \in SecondKeys :
       \E r \in {SecondIndex(seconds, second)} :
          /\ seconds' = r.seconds
          /\ internLog' = Append(internLog, [key |-> second, index |-> r.index])
          /\ lastOp' = Did("SecondIndex", second)
    /\ UNCHANGED errors
    /\ MemFrame

NextMem ==
    \/ MemGet
    \/ MemDelete
    \/ MemCleanup
    \/ MemClear
    \/ MemSecondIndex

SpecMem == InitMem /\ [][NextMem]_vars

\* C11: intern table. Between two Clear calls, SecondIndex returns the same
\* integer for the same key, distinct integers for distinct keys, an index
\* handed out keeps naming its key whatever was added since, and
\* Second(SecondIndex(k)) = k.
C11_InternTable ==
    /\ \A i, j \in 1..Len(internLog) :
          (internLog[i].key = internLog[j].key) <=> (internLog[i].index = internLog[j].index)
    /\ \A i \in 1..Len(internLog) :
          /\ ~Second(seconds, internLog[i].index).isNone
          /\ Second(seconds, internLog[i].index).value = internLog[i].key
          /\ internLog[i].index >= 0

\* C11 witness: a key interned, another key interned, the first asked again.
C11_Witness ==
    /\ Len(internLog) = 3
    /\ internLog[1].key = internLog[3].key
    /\ internLog[1].key # internLog[2].key
    /\ internLog[3].index = 0
    /\ internLog[2].index = 1

\* C12: ledger round-trip. Cleanup removes exactly the categories whose bucket
\* is empty, leaves every other category with its bucket and leaves the
\* intern table alone; Clear leaves the bucket map and the intern table empty.
C12_LedgerRoundTrip ==
    /\ lastOp.op = "Cleanup" =>
          /\ \A n \in MemNames :
                IF lastOp.errors0[n].present /\ lastOp.errors0[n].bucket # <<>>
                THEN errors[n] = lastOp.errors0[n]
                ELSE ~errors[n].present
          /\ seconds = lastOp.seconds0
    /\ lastOp.op = "Clear" => (Names(errors) = {} /\ seconds = <<>>)

\* C12 witness: Cleanup ran on a ledger with an empty and a non-empty
\* category and a non-empty intern table.
C12_Witness ==
    /\ lastOp.op = "Cleanup"
    /\ lastOp.errors0["A"] = Bucket(<<"e">>)
    /\ lastOp.errors0["B"] = Bucket(<<>>)
    /\ errors["A"] = Bucket(<<"e">>)
    /\ ~errors["B"].present
    /\ seconds # <<>>

-----------------------------------------------------------------------------
(* SDBMHash (utils.py). Python integers are unbounded: a number is a       *)
(* little-endian sequence of base-65536 limbs.                             *)

Limb == 65536

\* the number n < 2^31 as limbs
RECURSIVE ToBig(_)
ToBig(n) == IF n = 0 THEN <<>> ELSE <<n % Limb>> \o ToBig(n \div Limb)

\* x + y, with carry c
RECURSIVE BigAddC(_, _, _)
BigAddC(x, y, c) ==
    IF x = <<>> /\ y = <<>> THEN (IF c = 0 THEN <<>> ELSE <<c>>)
    ELSE LET a == IF x = <<>> THEN 0 ELSE Head(x)
             b == IF y = <<>> THEN 0 ELSE Head(y)
             s == a + b + c
         IN  <<s % Limb>> \o BigAddC(IF x = <<>> THEN <<>> ELSE Tail(x),
                                     IF y = <<>> THEN <<>> ELSE Tail(y), s \div Limb)

BigAdd(x, y) == BigAddC(x, y, 0)

\* x - y for x >= y, with borrow b
RECURSIVE BigSubB(_, _, _)
BigSubB(x, y, b) ==
    IF x = <<>> THEN <<>>
    ELSE LET s == Head(x) - (IF y = <<>> THEN 0 ELSE Head(y)) - b
         IN  <<s % Limb>> \o BigSubB(Tail(x), IF y = <<>> THEN <<>> ELSE Tail(y),
                                     IF s < 0 THEN 1 ELSE 0)

BigSub(x, y) == BigSubB(x, y, 0)

\* x << 6, with carry c
RECURSIVE BigShl6C(_, _)
BigShl6C(x, c) ==
    IF x = <<>> THEN (IF c = 0 THEN <<>> ELSE <<c>>)
    ELSE <<(Head(x) * 64 + c) % Limb>> \o BigShl6C(Tail(x), (Head(x) * 64 + c) \div Limb)

BigShl6(x) == BigShl6C(x, 0)

\* x << 16
BigShl16(x) == IF x = <<>> THEN <<>> ELSE <<0>> \o x

\* x & 0xFFFFFFFF: the two low limbs
Mask32(x) ==
    <<IF Len(x) >= 1 THEN x[1] ELSE 0, IF Len(x) >= 2 THEN x[2] ELSE 0>>

\* the loop of SDBMHash from character i on
RECURSIVE HashLoop(_, _, _)
HashLoop(key, i, hash) ==
    IF i > Len(key) THEN hash
    ELSE HashLoop(key, i + 1,
                  BigSub(BigAdd(BigAdd(ToBig(key[i]), BigShl6(hash)), BigShl16(hash)), hash))

\* an SDBMHash that returns the hash without the final mask
SDBMHash_NoMask(key) == HashLoop(key, 1, <<>>)

\* SDBMHash(key)
SDBMHash(key) == Mask32(HashLoop(key, 1, <<>>))

MaxKeyLen == 3

\* ord() of the characters of the keys: NUL, 'a', U+00FF, U+FFFF, U+10FFFF
HashChars == {0, 97, 255, 65535, 1114111}

RECURSIVE KeysOfLen(_)
KeysOfLen(n) ==
    IF n = 0 THEN {<<>>}
    ELSE {Append(k, c) : k \in KeysOfLen(n - 1), c \in HashChars}

HashKeys == UNION {KeysOfLen(n) : n \in 0..MaxKeyLen}

InitHash ==
    /\ PathIdle
    /\ LodIdle
    /\ RunIdle
    /\ MemIdle
    /\ WriterIdle
    /\ HostIdle
    /\ hashKey \in HashKeys
    /\ hashOut = NoHash

CallSDBMHash ==
    /\ hashOut = NoHash
    /\ hashOut' = SDBMHash(hashKey)
    /\ UNCHANGED hashKey
    /\ UNCHANGED pathVars
    /\ UNCHANGED lodVars
    /\ UNCHANGED runVars
    /\ UNCHANGED memVars
    /\ UNCHANGED writerVars
    /\ UNCHANGED hostVars

NextHash == CallSDBMHash

SpecHash == InitHash /\ [][NextHash]_vars

\* unsigned 32-bit arithmetic on a pair <<low, high>> of 16-bit halves
Add32(x, y) ==
    <<(x[1] + y[1]) % Limb, (x[2] + y[2] + (x[1] + y[1]) \div Limb) % Limb>>

Sub32(x, y) ==
    <<(x[1] - y[1]) % Limb, (x[2] - y[2] - (IF x[1] < y[1] THEN 1 ELSE 0)) % Limb>>

Shl6_32(x) == <<(x[1] * 64) % Limb, (x[2] * 64 + (x[1] * 64) \div Limb) % Limb>>

Shl16_32(x) == <<0, x[1]>>

\* the fold h = ord(c) + (h<<6) + (h<<16) - h, reduced mod 2^32 after every step
RECURSIVE Fold32(_, _, _)
Fold32(key, i, h) ==
    IF i > Len(key) THEN h
    ELSE Fold32(key, i + 1,
                Sub32(Add32(Add32(<<key[i] % Limb, key[i] \div Limb>>, Shl6_32(h)),
                            Shl16_32(h)), h))

\* C13: hash exactness. SDBMHash(key) is the wrapping 32-bit fold of the
\* characters, it lies in [0, 2^32), and SDBMHash("") = 0.
C13_HashExactness ==
    hashOut # NoHash =>
        /\ hashOut = Fold32(hashKey, 1, <<0, 0>>)
        /\ Len(hashOut) = 2
        /\ \A i \in 1..2 : hashOut[i] \in 0..(Limb - 1)
        /\ hashKey = <<>> => hashOut = <<0, 0>>

\* C13 witness: the key 'a', U+00FF, U+10FFFF, whose unmasked hash needs more
\* than 32 bits, hashed to 12500 * 65536 + 7841.
C13_Witness ==
    /\ hashKey = <<97, 255, 1114111>>
    /\ Len(SDBMHash_NoMask(hashKey)) > 2
    /\ hashOut = <<7841, 12500>>

-----------------------------------------------------------------------------
(* BinaryFileWriter (utils.py)                                             *)

MaxWrites == 2

\* bytes appended by each typed writer
Width ==
    [writeUInt |-> 4, writeUShort |-> 2, writeUByte |-> 1,
     writeQuaternion |-> 16, writeVector3 |-> 12, writeFloat |-> 4]

IntWriters == {"writeUInt", "writeUShort", "writeUByte"}

RECURSIVE Pow256(_)
Pow256(n) == IF n = 0 THEN 1 ELSE 256 * Pow256(n - 1)

\* n bytes of v, most significant first
RECURSIVE PackBE(_, _)
PackBE(v, n) == IF n = 0 THEN <<>> ELSE Append(PackBE(v \div 256, n - 1), v % 256)

\* n bytes of v, least significant first: the "<" of the struct formats
RECURSIVE PackLE(_, _)
PackLE(v, n) == IF n = 0 THEN <<>> ELSE <<v % 256>> \o PackLE(v \div 256, n - 1)

\* struct.pack("<I" / "<H" / "<B", v): struct.error when v is out of the
\* format's range. The model's integers are below 2^31, so a negative value is
\* the only one out of writeUInt's range.
PackInt(n, v) ==
    IF v < 0 \/ (n < 4 /\ v >= Pow256(n))
    THEN [raised |-> "struct.error", bytes |-> <<>>]
    ELSE [raised |-> "", bytes |-> PackLE(v, n)]

\* the floats the model writes, with their IEEE 754 single encoding; 1e40 is
\* too large for the f format
Floats == {"0.0", "1.0", "-2.0", "0.5", "1e40"}

FloatBytes(f) ==
    CASE f = "0.0" -> <<0, 0, 0, 0>>
      [] f = "1.0" -> <<0, 0, 128, 63>>
      [] f = "-2.0" -> <<0, 0, 0, 192>>
      [] f = "0.5" -> <<0, 0, 0, 63>>
      [] OTHER -> <<>>

\* struct.pack("<f" / "<3f" / "<4f", ...): OverflowError when a component is
\* too large
RECURSIVE PackFloats(_)
PackFloats(fs) ==
    IF fs = <<>> THEN [raised |-> "", bytes |-> <<>>]
    ELSE IF Head(fs) = "1e40" \/ PackFloats(Tail(fs)).raised # ""
         THEN [raised |-> "OverflowError", bytes |-> <<>>]
    ELSE [raised |-> "", bytes |-> FloatBytes(Head(fs)) \o PackFloats(Tail(fs)).bytes]

\* the arguments the model hands to the integer writers
IntArgs ==
    [writeUInt |-> {1, 16909060, 2147483647, -1},
     writeUShort |-> {258, 65535, 65536},
     writeUByte |-> {7, 255, 256}]

\* Quaternion as (w, x, y, z), Vector3 as (x, y, z), float as (v)
FloatArgs ==
    [writeQuaternion |-> {<<"1.0", "0.0", "0.0", "0.5">>, <<"1.0", "1e40", "0.0", "0.0">>},
     writeVector3 |-> {<<"0.0", "1.0", "-2.0">>},
     writeFloat |-> {<<"0.5">>, <<"1e40">>}]

\* a file left at the target path by an earlier export
OldModelFile == File(<<9, 9, 9>>)

InitWriter ==
    /\ PathIdle
    /\ LodIdle
    /\ RunIdle
    /\ MemIdle
    /\ HashIdle
    /\ HostIdle
    /\ buffer = <<>>
    /\ wState = "new"
    /\ wDisk \in {NoFile, OldModelFile}
    /\ wDisk0 = wDisk
    /\ wLast = NoCall

WriterFrame ==
    /\ UNCHANGED pathVars
    /\ UNCHANGED lodVars
    /\ UNCHANGED runVars
    /\ UNCHANGED memVars
    /\ UNCHANGED hashVars
    /\ UNCHANGED hostVars

Called(op, v, raised) ==
    [op |-> op, v |-> v, buffer0 |-> buffer, raised |-> raised,
     n |-> IF op \in DOMAIN Width THEN wLast.n + 1 ELSE wLast.n]

\* open(filename)
WriterOpen ==
    /\ wState = "new"
    /\ wState' = "open"
    /\ buffer' = <<>>
    /\ wDisk0' = wDisk
    /\ wLast' = Called("open", 0, "")
    /\ UNCHANGED wDisk
    /\ WriterFrame

\* self.buffer.extend(struct.pack(...)): nothing is appended when pack raises
Extend(op, v, packed) ==
    /\ buffer' = IF packed.raised = "" THEN buffer \o packed.bytes ELSE buffer
    /\ wLast' = Called(op, v, packed.raised)
    /\ UNCHANGED <<wState, wDisk, wDisk0>>
    /\ WriterFrame

CanWrite ==
    /\ wState = "open"
    /\ wLast.n < MaxWrites

\* self.buffer.extend(struct.pack("<I", v))
writeUInt ==
    /\ CanWrite
    /\ \E v \in IntArgs.writeUInt : Extend("writeUInt", v, PackInt(4, v))

\* self.buffer.extend(struct.pack("<H", v))
writeUShort ==
    /\ CanWrite
    /\ \E v \in IntArgs.writeUShort : Extend("writeUShort", v, PackInt(2, v))

\* self.buffer.extend(struct.pack("<B", v))
writeUByte ==
    /\ CanWrite
    /\ \E v \in IntArgs.writeUByte : Extend("writeUByte", v, PackInt(1, v))

\* self.buffer.extend(struct.pack("<4f", v.w, v.x, v.y, v.z))
writeQuaternion ==
    /\ CanWrite
    /\ \E v \in FloatArgs.writeQuaternion : Extend("writeQuaternion", 0, PackFloats(v))

\* self.buffer.extend(struct.pack("<3f", v.x, v.y, v.z))
writeVector3 ==
    /\ CanWrite
    /\ \E v \in FloatArgs.writeVector3 : Extend("writeVector3", 0, PackFloats(v))

\* self.buffer.extend(struct.pack("<f", v))
writeFloat ==
    /\ CanWrite
    /\ \E v \in FloatArgs.writeFloat : Extend("writeFloat", 0, PackFloats(v))

\* close(): open(self.filename, "wb") creates or truncates the file, tofile
\* writes the buffer, and an I/O failure may stop it after any number of
\* bytes. Both handlers format the exception with {:s}, which raises TypeError
\* before anything is logged; after a failed write file.close() is not reached.
WriterClose ==
    /\ wState = "open"
    /\ wState' = "closed"
    /\ \/ /\ wDisk' = wDisk
          /\ wLast' = Called("close", 0, "TypeError")
       \/ /\ wDisk' = File(buffer)
          /\ wLast' = Called("close", 0, "")
       \/ \E k \in 0..(Len(buffer) - 1) :
             /\ wDisk' = File(SubSeq(buffer, 1, k))
             /\ wLast' = Called("close", 0, "TypeError")
    /\ UNCHANGED <<buffer, wDisk0>>
    /\ WriterFrame

NextWriter ==
    \/ WriterOpen
    \/ writeUInt
    \/ writeUShort
    \/ writeUByte
    \/ writeQuaternion
    \/ writeVector3
    \/ writeFloat
    \/ WriterClose

SpecWriter == InitWriter /\ [][NextWriter]_vars

\* C14: encoder widths and byte order. A typed writer that returns leaves the
\* bytes already in the buffer as they were and appends exactly its width: 4,
\* 2, 1, 16, 12, 4; for the integer writers byte i of the appended bytes is
\* (v div 256^i) mod 256.
C14_WidthsAndByteOrder ==
    (wLast.op \in DOMAIN Width /\ wLast.raised = "") =>
        /\ Len(buffer) = Len(wLast.buffer0) + Width[wLast.op]
        /\ SubSeq(buffer, 1, Len(wLast.buffer0)) = wLast.buffer0
        /\ Width = [writeUInt |-> 4, writeUShort |-> 2, writeUByte |-> 1,
                    writeQuaternion |-> 16, writeVector3 |-> 12, writeFloat |-> 4]
        /\ wLast.op \in IntWriters =>
              \A i \in 0..(Width[wLast.op] - 1) :
                  buffer[Len(wLast.buffer0) + 1 + i] = (wLast.v \div Pow256(i)) % 256

\* C14 witness: writeUInt(0x01020304) appended 4, 3, 2, 1 after the two bytes
\* of an earlier writeUShort.
C14_Witness ==
    /\ wLast.op = "writeUInt"
    /\ wLast.v = 16909060
    /\ wLast.buffer0 = <<2, 1>>
    /\ buffer = <<2, 1, 4, 3, 2, 1>>

\* C15: atomic flush. Between open() and close() the file on disk is the one
\* open() found; after close() it holds the whole buffer, or, when opening or
\* writing failed, the failure was logged without an exception and the file is
\* still the one open() found.
C15_AtomicFlush ==
    /\ wState = "open" => wDisk = wDisk0
    /\ wState = "closed" =>
          /\ wDisk = File(buffer) \/ wDisk = wDisk0
          /\ wLast.raised = ""

-----------------------------------------------------------------------------
(* Properties of the stages of the export run, checked on Spec             *)

\* C16: validate. With an empty output path or a host version below 2.70 the
\* run ends with ExecuteUrhoExport returning False: no temporary object was
\* created, Scan was not invoked, CheckFilepath and the writers were not
\* called and the files on disk are those the run found.
C16_ValidateFails ==
    (settings.outputPath = <<>>
        \/ appVersion[1] < 2 \/ (appVersion[1] = 2 /\ appVersion[2] < 70)) =>
        /\ pc \in {"start", "cleanup", "done"}
        /\ pc # "start" => outcome = "false"
        /\ tempObjects = <<>>
        /\ sceneObjects = {}
        /\ tDataList = <<>>
        /\ trace = <<>>
        /\ files = files0

\* C16 witness: a run on a scene with LOD sets and earlier output files, ended
\* by the empty output path on a supported version.
C16_Witness ==
    /\ pc = "done"
    /\ outcome = "false"
    /\ settings.outputPath = <<>>
    /\ appVersion = <<2, 80, 0>>
    /\ lodsets # <<>>
    /\ files0 # {}

\* the stages in their order; the three per-unit stages share a rank and are
\* ordered by position
StageRank ==
    [start |-> 0, lods |-> 1, scan |-> 2, models |-> 3, animations |-> 3, materials |-> 3,
     scene |-> 4, cleanup |-> 5, done |-> 6]

PhaseRank == [models |-> 0, animations |-> 1, materials |-> 2]

PerUnit == {"models", "animations", "materials"}

\* position (u1, p1, i1) comes before (u2, p2, i2) in the per-unit loops
Before(u1, p1, i1, u2, p2, i2) ==
    \/ u1 < u2
    \/ (u1 = u2 /\ PhaseRank[p1] < PhaseRank[p2])
    \/ (u1 = u2 /\ p1 = p2 /\ i1 < i2)

\* C17: stage ordering. Every step of a run leads to a later stage: Validate,
\* AssembleLODs, Decompose, the units in order and in each unit its models,
\* then its animations with their triggers, then its textures, WriteScene,
\* CleanupTemporaries; no stage or item is entered a second time.
C17_StageOrdering ==
    [][\/ StageRank[pc'] > StageRank[pc]
       \/ /\ pc \in PerUnit
          /\ pc' \in PerUnit
          /\ Before(unitIdx, pc, subIdx, unitIdx', pc', subIdx')]_vars

\* C17 witness: a run that went through every stage and exported a model, an
\* animation, its triggers and a texture.
C17_Witness ==
    /\ pc = "done"
    /\ outcome = "true"
    /\ tempObjects = <<>>
    /\ \A kind \in {"model", "animation", "triggers", "texture"} :
          \E i \in DOMAIN trace : trace[i].op = "write" /\ trace[i].kind = kind

\* the name the naming policy gives the model of object obj: the name of its
\* LOD set, else the object's name under 'Object', else the name of its mesh
PriorityName(obj) ==
    IF \E s \in DOMAIN lodsets : lodsets[s].lodset_id = obj.lodsetID
    THEN lodsets[CHOOSE s \in DOMAIN lodsets : lodsets[s].lodset_id = obj.lodsetID].name
    ELSE IF settings.meshnameDerivedBy = "Object" THEN obj.name
    ELSE obj.data

\* C18: mesh-name priority. The mesh name resolved for a model whose object is
\* found and is not an empty is the name the naming policy gives it.
C18_MeshNamePriority ==
    pc = "models" =>
        LET uName == tDataList[unitIdx].models[subIdx].name
            r == ResolveMeshName(uName)
        IN  (r.objFound /\ ~r.isEmpty) =>
                r.meshName = PriorityName(CHOOSE o \in Lookup(uName) : TRUE)

\* the LOD entries with a mesh, as pairs of set index and entry index
MeshEntries ==
    {e \in UNION {{<<s, l>> : l \in DOMAIN lodsets[s].lods} : s \in DOMAIN lodsets} :
        lodsets[e[1]].lods[e[2]].meshObj # <<>>}

\* LOD assembly is over: Scan may start, or has started
Assembled ==
    \/ pc \in {"scan", "models", "animations", "materials", "scene"}
    \/ (pc = "cleanup" /\ outcome = "true")
    \/ (pc = "done" /\ outcome = "raised")

\* C20: LOD assembly. When the assembly stage is over there is exactly one
\* temporary object per LOD entry with a mesh, carrying that mesh and the
\* entry's synthetic name; every one has lodsetID -2, is in tempObjects and is
\* linked into the scene.
C20_OneObjectPerMeshEntry ==
    Assembled =>
        /\ Len(tempObjects) = Cardinality(MeshEntries)
        /\ \A e \in MeshEntries :
              Cardinality({k \in DOMAIN tempObjects :
                  /\ tempObjects[k].name = TempName(lodsets[e[1]], lodsets[e[1]].lods[e[2]])
                  /\ tempObjects[k].data = lodsets[e[1]].lods[e[2]].meshObj}) = 1
        /\ \A k \in DOMAIN tempObjects :
              /\ tempObjects[k].lodsetID = TempLodsetID
              /\ tempObjects[k] \in sceneObjects

\* the temporary objects made for LOD entry e
TempOf(e) ==
    {tempObjects[k] : k \in {x \in DOMAIN tempObjects :
        /\ tempObjects[x].name = TempName(lodsets[e[1]], lodsets[e[1]].lods[e[2]])
        /\ tempObjects[x].data = lodsets[e[1]].lods[e[2]].meshObj}}

\* the modifiers the assembly attached to temporary object t
Attached(t) == Range(t.modifiers) \cap {"__lod_armature", "__decimate"}

\* entry e is the first entry of its set that has a mesh
FirstWithMesh(e) == \A f \in MeshEntries : f[1] = e[1] => f[2] >= e[2]

\* the modifiers of the temporary objects of entry e, where the armature
\* modifier of a set with armature belongs on the entry that satisfies first
ModifiersBy(e, first) ==
    \A t \in TempOf(e) :
        IF HasArmature(lodsets[e[1]])
        THEN /\ ("__lod_armature" \in Attached(t)) <=> first
             /\ "__decimate" \notin Attached(t)
        ELSE /\ ("__decimate" \in Attached(t)) <=>
                    (lodsets[e[1]].lods[e[2]].decimate < DecimateOne)
             /\ "__lod_armature" \notin Attached(t)

\* C21 as stated: LOD modifiers. In a set with armature the armature modifier
\* is on the temporary object of the first LOD entry of the set and on no
\* other, and none has a decimation modifier; in a set without armature an
\* object has a decimation modifier exactly when its decimate ratio is below
\* 1.0, and none has an armature modifier.
C21_FirstLodEntry == \A e \in MeshEntries : ModifiersBy(e, e[2] = 1)

\* C21 (amended): LOD modifiers. As above, with the armature modifier on the
\* temporary object of the first LOD entry of the set that has a mesh.
C21_LodModifiers == \A e \in MeshEntries : ModifiersBy(e, FirstWithMesh(e))

\* a set with armature whose first entry has no mesh: the object of the second
\* entry carries the armature modifier, the object of the third does not
C21_Witness ==
    /\ Assembled
    /\ \E e \in MeshEntries :
          /\ HasArmature(lodsets[e[1]]) /\ e[2] = 2 /\ FirstWithMesh(e)
          /\ \E t \in TempOf(e) : "__lod_armature" \in Attached(t)
    /\ \E e \in MeshEntries :
          /\ HasArmature(lodsets[e[1]]) /\ e[2] = 3
          /\ \E t \in TempOf(e) : Attached(t) = {}

\* the step added events to the trace and the last of them is an I/O failure:
\* a directory that could not be created or a file that could not be opened
IoFailureStep ==
    /\ Len(trace') > Len(trace)
    /\ trace'[Len(trace')].result \in {"raised", "openFailed"}

\* C22: per-artifact I/O errors are recoverable. A step in which directory
\* creation or a write fails does not end the run with an exception: the run
\* goes on to the next artifact or to the scene.
C22_IoErrorsRecoverable == [][IoFailureStep => outcome' # "raised"]_vars

-----------------------------------------------------------------------------
(* The timer: execute_queued_functions and the request file (utils.py)     *)

MaxPosted == 2
MaxQueued == 2

\* blender2runtime once sendUpdateView2Runtime found a screenshotPath
ReqPath == "p/req2engine.json"

\* what run_in_main_thread may be handed: a function that returns, or one whose
\* call raises (a function that fails, or the result of a call put in the
\* place of a function, Urho3DRenderer.py line 157)
Function(id, ok) == [id |-> id, ok |-> ok]

Pending(req) == {ty \in ReqTypes : req[ty] # NoValue}

\* sendRequests2Engine() on requests req, path and request file mb
sendRequests2Engine(req, path, mb) ==
    IF req = NoRequests THEN [requests |-> req, mailbox |-> mb, wrote |-> {}]
    ELSE IF path \in {"None", ""} THEN [requests |-> req, mailbox |-> mb, wrote |-> {}]
    ELSE IF mb.exists THEN [requests |-> req, mailbox |-> mb, wrote |-> {}]
    ELSE [requests |-> NoRequests, mailbox |-> [exists |-> TRUE, data |-> req],
          wrote |-> Pending(req)]

InitTimer ==
    /\ PathIdle
    /\ LodIdle
    /\ RunIdle
    /\ MemIdle
    /\ HashIdle
    /\ WriterIdle
    /\ TimerIdle
    /\ PanelIdle
    /\ ListIdle

TimerFrame ==
    /\ UNCHANGED pathVars
    /\ UNCHANGED lodVars
    /\ UNCHANGED runVars
    /\ UNCHANGED memVars
    /\ UNCHANGED hashVars
    /\ UNCHANGED writerVars
    /\ UNCHANGED panelVars
    /\ UNCHANGED listVars

\* run_in_main_thread(function), from any thread and at any time
run_in_main_thread ==
    /\ posted < MaxPosted
    /\ \E ok \in BOOLEAN :
          execution_queue' = Append(execution_queue, Function(posted + 1, ok))
    /\ posted' = posted + 1
    /\ UNCHANGED <<ran, tick, lastTick, timer, requests2Engine, queued, everQueued,
                   blender2runtime, mailbox, everWritten, tickStart, inbox>>
    /\ TimerFrame

\* queueRequestForRuntime(type, requestData), on the main thread
queueRequestForRuntime ==
    /\ tick = "idle"
    /\ queued < MaxQueued
    /\ \E ty \in ReqTypes, v \in ReqValues :
          /\ requests2Engine' = [requests2Engine EXCEPT ![ty] = v]
          /\ everQueued' = everQueued \cup {ty}
    /\ queued' = queued + 1
    /\ UNCHANGED <<execution_queue, posted, ran, tick, lastTick, timer, blender2runtime,
                   mailbox, everWritten, tickStart, inbox>>
    /\ TimerFrame

\* sendUpdateView2Runtime(): every request type is queued, then the paths are
\* taken from the screenshotPath setting
sendUpdateView2Runtime ==
    /\ tick = "idle"
    /\ queued < MaxQueued
    /\ \E v \in ReqValues : requests2Engine' = [ty \in ReqTypes |-> v]
    /\ everQueued' = ReqTypes
    /\ queued' = queued + 1
    /\ \E screenshotPath \in {"", "p"} :
          blender2runtime' = IF screenshotPath = "" THEN "" ELSE ReqPath
    /\ UNCHANGED <<execution_queue, posted, ran, tick, lastTick, timer, mailbox, everWritten,
                   tickStart, inbox>>
    /\ TimerFrame

\* the host calls execute_queued_functions
TimerFires ==
    /\ timer = "armed"
    /\ tick = "idle"
    /\ tick' = "drain"
    /\ tickStart' = [pending |-> requests2Engine, mailbox |-> mailbox.exists,
                     path |-> blender2runtime]
    /\ UNCHANGED <<execution_queue, posted, ran, lastTick, timer, requests2Engine, queued,
                   everQueued, blender2runtime, mailbox, everWritten, inbox>>
    /\ TimerFrame

\* the tick ends with an exception; whether the host calls the timer function
\* again after that is the host's choice
TickRaises ==
    /\ tick' = "idle"
    /\ lastTick' = "raised"
    /\ timer' \in {"armed", "removed"}

\* lines 341-343: one turn of the loop, function = execution_queue.get();
\* function()
DrainOne ==
    /\ tick = "drain"
    /\ execution_queue # <<>>
    /\ execution_queue' = Tail(execution_queue)
    /\ ran' = Append(ran, Head(execution_queue).id)
    /\ IF Head(execution_queue).ok
       THEN UNCHANGED <<tick, lastTick, timer>>
       ELSE TickRaises
    /\ UNCHANGED <<posted, requests2Engine, queued, everQueued, blender2runtime, mailbox,
                   everWritten, tickStart, inbox>>
    /\ TimerFrame

\* lines 345-364: the loop found the queue empty; the pending requests are
\* sent, the runtime2blender file is read, 1 is returned
FinishTick ==
    /\ tick = "drain"
    /\ execution_queue = <<>>
    /\ \E s \in {sendRequests2Engine(requests2Engine, blender2runtime, mailbox)} :
          /\ requests2Engine' = s.requests
          /\ mailbox' = s.mailbox
          /\ everWritten' = everWritten \cup s.wrote
    /\ \/ /\ inbox \in {"absent", "other"}
          /\ tick' = "idle" /\ lastTick' = "returned 1"
          /\ UNCHANGED <<timer, inbox>>
       \/ /\ inbox = "reload"
          /\ inbox' = "absent"
          /\ tick' = "idle" /\ lastTick' = "returned 1"
          /\ UNCHANGED timer
       \/ /\ inbox = "reload"
          /\ TickRaises
          /\ inbox' \in {"reload", "absent"}
       \/ /\ inbox = "bad"
          /\ TickRaises
          /\ UNCHANGED inbox
    /\ UNCHANGED <<execution_queue, posted, ran, queued, everQueued, blender2runtime,
                   tickStart>>
    /\ TimerFrame

\* the runtime reads the request file and removes it
RuntimeTakesRequests ==
    /\ mailbox.exists
    /\ mailbox' = NoMailbox
    /\ UNCHANGED <<execution_queue, posted, ran, tick, lastTick, timer, requests2Engine,
                   queued, everQueued, blender2runtime, everWritten, tickStart, inbox>>
    /\ TimerFrame

\* the runtime writes runtime2blender.json: a reload_screenshot action, another
\* action, or a file that is not complete when the tick reads it
RuntimeAnswers ==
    /\ blender2runtime = ReqPath
    /\ inbox = "absent"
    /\ inbox' \in {"reload", "other", "bad"}
    /\ UNCHANGED <<execution_queue, posted, ran, tick, lastTick, timer, requests2Engine,
                   queued, everQueued, blender2runtime, mailbox, everWritten, tickStart>>
    /\ TimerFrame

NextTimer ==
    \/ run_in_main_thread
    \/ queueRequestForRuntime
    \/ sendUpdateView2Runtime
    \/ TimerFires
    \/ DrainOne
    \/ FinishTick
    \/ RuntimeTakesRequests
    \/ RuntimeAnswers

SpecTimer == InitTimer /\ [][NextTimer]_vars

\* C23: main-thread queue. Every function handed to run_in_main_thread is
\* called exactly once and in the order of enqueueing, none is lost, and every
\* tick drains the queue and returns 1, so that the timer stays armed.
C23_MainThreadQueue ==
    /\ \A i \in DOMAIN ran : ran[i] = i
    /\ 1..posted = Range(ran) \cup {execution_queue[i].id : i \in DOMAIN execution_queue}
    /\ lastTick # "raised"
    /\ timer = "armed"

TickEnds == tick = "drain" /\ tick' = "idle"

\* C30, the part about the request file: an existing request file is never
\* overwritten; while it exists or no path is configured nothing is written
\* and the pending requests stay; no queued request type is dropped without
\* having been written.
C30_Mailbox ==
    /\ [][mailbox.exists /\ mailbox'.exists => mailbox' = mailbox]_vars
    /\ [][(mailbox.exists \/ blender2runtime \in {"None", ""})
            => /\ everWritten' = everWritten
               /\ Pending(requests2Engine) \subseteq Pending(requests2Engine')]_vars
    /\ [](everQueued \subseteq everWritten \cup Pending(requests2Engine))

\* C30, the part about the next tick: a tick that begins with pending
\* requests, a configured path and no request file ends with all of them in
\* one request file and requests2Engine empty.
C30_NextTickWrites ==
    [][(/\ TickEnds
        /\ tickStart.pending # NoRequests
        /\ tickStart.path = ReqPath
        /\ ~tickStart.mailbox)
          => /\ mailbox' = [exists |-> TRUE, data |-> tickStart.pending]
             /\ requests2Engine' = NoRequests]_vars

\* C30: request mailbox.
C30_RequestMailbox == C30_Mailbox /\ C30_NextTickWrites

-----------------------------------------------------------------------------
(* The export panel: the update callbacks of UrhoExportSettings            *)

MaxChanges == 4

\* 'ACTION' in self.animationSource
HasAction(animationSource) ==
    animationSource \in {"ALL_ACTIONS", "CURRENT_ACTION", "USED_ACTIONS", "SELECTED_ACTIONS"}

\* update_func(self, context). The statements of lines 781-811 in order, each
\* field given by the value the sequence leaves in it; the assignments made by
\* the body fire update callbacks again, which return at the guard.
update_func(self) ==
    IF self.updatingProperties THEN self
    ELSE LET geometryTan == /\ self.geometryPos /\ self.geometryNor /\ self.geometryUV
                            /\ self.geometryTan
             morphNor == self.geometryNor /\ self.morphNor
         IN  [self EXCEPT
                !.prefsOutputPath = IF self.outputPath # <<>> THEN self.outputPath ELSE @,
                !.geometryWei = self.skeletons,
                !.objAnimations = IF self.skeletons THEN FALSE ELSE @,
                !.animations = IF self.skeletons THEN @ ELSE FALSE,
                !.actionsByFcurves = IF ~HasAction(self.animationSource) THEN FALSE ELSE @,
                !.morphs = IF ~self.geometries THEN FALSE ELSE @,
                !.geometryTan = geometryTan,
                !.morphNor = morphNor,
                !.morphTan = IF ~geometryTan \/ ~morphNor THEN FALSE ELSE @,
                !.merge = IF self.selectErrors THEN FALSE ELSE @]

\* update_func2(self, context)
update_func2(self) ==
    IF self.updatingProperties THEN self
    ELSE [self EXCEPT !.selectErrors = IF self.merge THEN FALSE ELSE @]

\* errors_update_func(self, context): the flag is cleared before selectErrors()
\* is called
errors_update_func(self) ==
    IF self.updatingProperties THEN self
    ELSE [self EXCEPT !.errorsEnum = "NONE"]

\* str.rindex(sub): the 1-based positions where sub occurs in str
Occurrences(str, sub) ==
    {i \in 1..(Len(str) - Len(sub) + 1) : SubSeq(str, i, i + Len(sub) - 1) = sub}

Max(S) == CHOOSE x \in S : \A y \in S : y <= x
Min(S) == CHOOSE x \in S : \A y \in S : x <= y

StartsWith(str, prefix) ==
    Len(prefix) <= Len(str) /\ SubSeq(str, 1, Len(prefix)) = prefix

\* context.scene.name
SceneName == <<"S">>

\* lines 832-845: "if self.addDir:"; rindex raises ValueError when the last
\* folder of the normalized path does not occur in outputPath
AddDirPart(self, s) ==
    IF ~self.addDir THEN [st |-> self, raised |-> ""]
    ELSE LET last == Basename(s, Normpath(s, self.outputPath))
         IN  IF Occurrences(self.outputPath, last) = {}
             THEN [st |-> [self EXCEPT !.addDir = FALSE], raised |-> "ValueError"]
             ELSE IF last = <<>>
             THEN [st |-> [self EXCEPT !.addDir = FALSE], raised |-> ""]
             ELSE [st |-> [self EXCEPT
                            !.addDir = FALSE,
                            !.outputPath =
                                SubSeq(@, 1, Max(Occurrences(self.outputPath, last)) - 1),
                            !.modelsPath = Join(s, last, @),
                            !.animationsPath = Join(s, last, @)],
                   raised |-> ""]

\* lines 846-865: "if self.removeDir:"
RemoveDirPart(self, s) ==
    IF ~self.removeDir THEN self
    ELSE LET found == {i \in 1..Len(self.modelsPath) : self.modelsPath[i] = s}
             ifirst == IF found = {} THEN 0 ELSE Min(found)
             first == SubSeq(self.modelsPath, 1, ifirst)
         IN  IF first # <<>> /\ StartsWith(self.animationsPath, first)
             THEN [self EXCEPT
                     !.removeDir = FALSE,
                     !.outputPath = Join(s, @, first),
                     !.modelsPath = SubSeq(@, ifirst + 1, Len(@)),
                     !.animationsPath = SubSeq(@, ifirst + 1, Len(@))]
             ELSE [self EXCEPT !.removeDir = FALSE]

\* lines 866-879: "if self.addSceneDir:"
AddSceneDirPart(self, s) ==
    IF ~self.addSceneDir THEN self
    ELSE IF SceneName # Basename(s, Normpath(s, self.modelsPath))
         THEN [self EXCEPT
                 !.addSceneDir = FALSE,
                 !.modelsPath = Join(s, @, SceneName),
                 !.animationsPath = Join(s, @, SceneName)]
         ELSE [self EXCEPT !.addSceneDir = FALSE]

\* update_subfolders(self, context): the new settings, and the exception that
\* left the callback, if any; the flag is cleared by the last statement only
update_subfolders(self, s) ==
    IF self.updatingProperties THEN [st |-> self, raised |-> ""]
    ELSE LET a == AddDirPart(self, s)
         IN  IF a.raised # ""
             THEN [st |-> [a.st EXCEPT !.updatingProperties = TRUE], raised |-> a.raised]
             ELSE [st |-> [AddSceneDirPart(RemoveDirPart(a.st, s), s)
                              EXCEPT !.updatingProperties = FALSE],
                   raised |-> ""]

\* the update callback each property is declared with (lines 1011-1487)
Hook ==
    [updatingProperties |-> "none", outputPath |-> "update_func", prefsOutputPath |-> "none",
     modelsPath |-> "none", animationsPath |-> "none",
     addDir |-> "update_subfolders", removeDir |-> "update_subfolders",
     addSceneDir |-> "update_subfolders",
     selectErrors |-> "update_func", errorsEnum |-> "errors_update_func",
     merge |-> "update_func2", onlyDeformBones |-> "update_func2",
     skeletons |-> "update_func", derigify |-> "update_func",
     actionsByFcurves |-> "none", animations |-> "none", objAnimations |-> "none",
     animationSource |-> "update_func",
     geometries |-> "update_func", geometryPos |-> "update_func",
     geometryNor |-> "update_func", geometryUV |-> "update_func",
     geometryTan |-> "update_func", geometryWei |-> "none",
     morphs |-> "none", morphNor |-> "update_func", morphTan |-> "update_func"]

\* the values the panel offers for a property
Offered(prop) ==
    IF prop = "outputPath" THEN {<<>>, <<"o", "/", "a">>, <<"o", "/">>}
    ELSE IF prop \in {"modelsPath", "animationsPath"} THEN {<<>>, <<"m">>}
    ELSE IF prop = "animationSource" THEN {"USED_ACTIONS", "ALL_TRACKS"}
    ELSE IF prop = "errorsEnum" THEN {"NONE", "ALL"}
    ELSE IF prop \in {"addDir", "removeDir", "addSceneDir"} THEN {TRUE}
    ELSE BOOLEAN

\* the properties the user changes in the panel
PanelProps == DOMAIN Hook \ {"updatingProperties", "prefsOutputPath"}

\* self.prop = v: the value is stored and the property's update callback runs
Assign(self, prop, v, s) ==
    LET st == [self EXCEPT ![prop] = v]
    IN  IF Hook[prop] = "update_func" THEN [st |-> update_func(st), raised |-> ""]
        ELSE IF Hook[prop] = "update_func2" THEN [st |-> update_func2(st), raised |-> ""]
        ELSE IF Hook[prop] = "errors_update_func"
             THEN [st |-> errors_update_func(st), raised |-> ""]
        ELSE IF Hook[prop] = "update_subfolders" THEN update_subfolders(st, s)
        ELSE [st |-> st, raised |-> ""]

\* the assignments of reset() that touch the modelled properties, in order
ResetAssignments ==
    <<<<"selectErrors", TRUE>>, <<"merge", FALSE>>, <<"skeletons", FALSE>>,
      <<"onlyDeformBones", FALSE>>, <<"actionsByFcurves", FALSE>>, <<"derigify", FALSE>>,
      <<"animations", FALSE>>, <<"objAnimations", FALSE>>,
      <<"animationSource", "USED_ACTIONS">>,
      <<"geometries", TRUE>>, <<"geometryPos", TRUE>>, <<"geometryNor", TRUE>>,
      <<"geometryUV", FALSE>>, <<"geometryTan", FALSE>>, <<"geometryWei", FALSE>>,
      <<"morphs", FALSE>>, <<"morphNor", TRUE>>, <<"morphTan", FALSE>>>>

RECURSIVE AssignAll(_, _, _)
AssignAll(self, list, s) ==
    IF list = <<>> THEN self
    ELSE AssignAll(Assign(self, list[1][1], list[1][2], s).st, Tail(list), s)

\* reset(self, context): the flag is cleared, then the properties are assigned
\* one by one, each assignment firing the property's callback
reset(self) == AssignAll([self EXCEPT !.updatingProperties = FALSE], ResetAssignments, Slash)

InitPanel ==
    /\ PathIdle
    /\ LodIdle
    /\ RunIdle
    /\ MemIdle
    /\ HashIdle
    /\ WriterIdle
    /\ TimerIdle
    /\ PanelIdle
    /\ ListIdle

PanelFrame ==
    /\ UNCHANGED pathVars
    /\ UNCHANGED lodVars
    /\ UNCHANGED runVars
    /\ UNCHANGED memVars
    /\ UNCHANGED hashVars
    /\ UNCHANGED writerVars
    /\ UNCHANGED timerVars
    /\ UNCHANGED listVars

\* the user changes a property in the panel, or presses one of the subfolder
\* buttons; an exception that leaves the callback is reported by the host
SetProperty ==
    /\ changes < MaxChanges
    /\ \E prop \in PanelProps : \E v \in Offered(prop) :
       \E entered \in {[exportSettings EXCEPT ![prop] = v]} :
       \E r \in {Assign(exportSettings, prop, v, sep)} :
          /\ exportSettings' = r.st
          /\ lastCallback' = [name |-> Hook[prop], entered |-> entered, raised |-> r.raised]
    /\ changes' = changes + 1
    /\ PanelFrame

\* UrhoExportResetOperator.execute
UrhoExportResetOperator ==
    /\ changes < MaxChanges
    /\ \E r \in {reset(exportSettings)} :
          /\ exportSettings' = r
          /\ lastCallback' = [name |-> "reset", entered |-> exportSettings, raised |-> ""]
    /\ changes' = changes + 1
    /\ PanelFrame

NextPanel ==
    \/ SetProperty
    \/ UrhoExportResetOperator

SpecPanel == InitPanel /\ [][NextPanel]_vars

\* the implications update_func establishes between the export options
Normalized(self) ==
    /\ self.skeletons => (self.geometryWei /\ ~self.objAnimations)
    /\ ~self.skeletons => (~self.geometryWei /\ ~self.animations)
    /\ self.morphs => self.geometries
    /\ self.geometryTan => (self.geometryPos /\ self.geometryNor /\ self.geometryUV)
    /\ self.morphNor => self.geometryNor
    /\ self.morphTan => (self.geometryTan /\ self.morphNor)

\* C24: option normalization. After a property change whose update_func
\* callback completed, the settings satisfy the implications between the
\* options, and running update_func once more changes nothing.
C24_OptionNormalization ==
    (lastCallback.name = "update_func" /\ lastCallback.raised = "")
        => /\ Normalized(exportSettings)
           /\ update_func(exportSettings) = exportSettings

\* C25: select-errors and merge are incompatible. In every state reached from
\* the defaults by property changes and resets, merge and selectErrors are not
\* both true.
C25_MergeExcludesSelectErrors == ~(exportSettings.merge /\ exportSettings.selectErrors)

\* C27: the re-entrancy guard is always released. updatingProperties is false
\* whenever no update callback is executing, also after a callback that failed.
C27_GuardReleased == ~exportSettings.updatingProperties

\* C26: LOD set names are kept unique. Setting a set's lodset_name ends without
\* exception and leaves the set named by the value, suffixed with '_' until no
\* set has it, a name no other set has.
C26_UniqueLodSetNames ==
    [][renamed' # renamed =>
          /\ renamed'.raised = ""
          /\ \A i \in 1..Len(lodsets') :
                lodsets'[i].lodset_id = renamed'.set =>
                   /\ lodsets'[i].name = renamed'.resolved
                   /\ \A j \in 1..Len(lodsets') : j # i => lodsets'[j].name # lodsets'[i].name]_vars

-----------------------------------------------------------------------------
(* The list operators of the object panels (__init__.py)                   *)

MaxItems == 2

Max2(a, b) == IF a >= b THEN a ELSE b
Min2(a, b) == IF a <= b THEN a ELSE b

\* bpy_prop_collection.remove(index) on a collection of n items: an index
\* outside the collection removes nothing
RemoveItem(n, index) == IF 0 <= index /\ index < n THEN n - 1 ELSE n

\* min(max(0, index - 1), len(list) - 1), with the length after the removal
IndexAfterDelete(index, n) == Min2(Max2(0, index - 1), n - 1)

\* move_index(): max(0, min(new_index, list_length))
IndexAfterMove(index, n, direction) ==
    Max2(0, Min2(index + (IF direction = "UP" THEN -1 ELSE 1), n - 1))

\* what lodset.lods.add() appends: a LODData with its defaults
DefaultLod == [meshObj |-> <<>>, distance |-> 0, decimate |-> DecimateOne]

InitList ==
    /\ PathIdle
    /\ RunIdle
    /\ MemIdle
    /\ HashIdle
    /\ WriterIdle
    /\ TimerIdle
    /\ PanelIdle
    /\ lodsets = <<NewLodSet(1)>>
    /\ lodset_counter = 1
    /\ objects = [o \in Objects |->
                     Object(ObjName(o), "MESH", SharedMesh, IF o = 1 THEN 1 ELSE 0)]
    /\ active_object \in Objects
    /\ deletedIds = {}
    /\ opError = FALSE
    /\ renamed = NoRename
    /\ user_data = [o \in Objects |-> 0]
    /\ list_index_userdata = [o \in Objects |-> 0]
    /\ listOp = NoListOp

ListFrame ==
    /\ UNCHANGED pathVars
    /\ UNCHANGED runVars
    /\ UNCHANGED <<memVars, hashVars, writerVars, timerVars, panelVars>>
    /\ UNCHANGED <<lodset_counter, objects, active_object, deletedIds, renamed>>

ListOp(op, index, n, raised) ==
    [op |-> op, index |-> index, length |-> n, acted |-> index, raised |-> raised]

\* "urho_keyvalue.new_item"
UL_URHO_LIST_ITEM_USERDATA ==
    /\ user_data[active_object] < MaxItems
    /\ user_data' = [user_data EXCEPT ![active_object] = @ + 1]
    /\ listOp' = ListOp("new_item", list_index_userdata[active_object],
                        user_data[active_object], "")
    /\ opError' = FALSE
    /\ UNCHANGED <<list_index_userdata, lodsets>>
    /\ ListFrame

\* "urho_keyvalue.delete_item"; poll: the collection is not empty
UL_URHO_LIST_ITEM_DEL_USERDATA ==
    /\ user_data[active_object] > 0
    /\ \E index \in {list_index_userdata[active_object]} :
       \E n \in {RemoveItem(user_data[active_object], index)} :
          /\ user_data' = [user_data EXCEPT ![active_object] = n]
          /\ list_index_userdata' =
                [list_index_userdata EXCEPT ![active_object] = IndexAfterDelete(index, n)]
          /\ listOp' = ListOp("delete_item", index, user_data[active_object], "")
    /\ opError' = FALSE
    /\ UNCHANGED lodsets
    /\ ListFrame

\* "urho_keyvalue.move_item"; the items of the collection are not told apart,
\* so kv_list.move(neighbor, index) leaves the modelled collection as it is
UL_URHO_LIST_ITEM_MOVE_USERDATA ==
    /\ user_data[active_object] > 0
    /\ \E direction \in {"UP", "DOWN"} :
       \E index \in {list_index_userdata[active_object]} :
          /\ list_index_userdata' =
                [list_index_userdata EXCEPT
                    ![active_object] = IndexAfterMove(index, user_data[active_object],
                                                      direction)]
          /\ listOp' = ListOp("move_item", index, user_data[active_object], "")
    /\ opError' = FALSE
    /\ UNCHANGED <<user_data, lodsets>>
    /\ ListFrame

\* "urho_lod.new_item": nothing happens when the object's lodsetID matches no set
UL_URHO_LIST_ITEM_LOD ==
    /\ \E s \in {getLodSetWithID(objects[active_object].lodsetID)} :
          IF s = 0
          THEN /\ listOp' = ListOp("lod.new_item", 0, 0, "")
               /\ UNCHANGED lodsets
          ELSE /\ Len(lodsets[s].lods) < MaxItems
               /\ lodsets' = [lodsets EXCEPT ![s].lods = Append(@, DefaultLod)]
               /\ listOp' = ListOp("lod.new_item", lodsets[s].lods_idx, Len(lodsets[s].lods), "")
    /\ opError' = FALSE
    /\ UNCHANGED <<user_data, list_index_userdata>>
    /\ ListFrame

\* "urho_lod.delete_item"; poll: the object's lodsetID is not 0
UL_URHO_LIST_ITEM_DEL_LOD ==
    /\ objects[active_object].lodsetID # 0
    /\ \E s \in {getLodSetWithID(objects[active_object].lodsetID)} :
          IF s = 0
          THEN /\ listOp' = ListOp("lod.delete_item", 0, 0, "AttributeError")
               /\ opError' = TRUE
               /\ UNCHANGED lodsets
          ELSE \E index \in {lodsets[s].lods_idx} :
               \E n \in {RemoveItem(Len(lodsets[s].lods), index)} :
                  /\ lodsets' = [lodsets EXCEPT
                                    ![s].lods = IF n < Len(@) THEN RemoveAt(@, index + 1) ELSE @,
                                    ![s].lods_idx = IndexAfterDelete(index, n)]
                  /\ listOp' = ListOp("lod.delete_item", index, Len(lodsets[s].lods), "")
                  /\ opError' = FALSE
    /\ UNCHANGED <<user_data, list_index_userdata>>
    /\ ListFrame

\* "urho_lod.move_item"; poll: the object's lodsetID is not 0. The entries made
\* by lods.add() are equal, so currentlist.move(neighbor, index) leaves the
\* modelled list as it is.
UL_URHO_LIST_ITEM_MOVE_LOD ==
    /\ objects[active_object].lodsetID # 0
    /\ \E direction \in {"UP", "DOWN"} :
       \E s \in {getLodSetWithID(objects[active_object].lodsetID)} :
          IF s = 0
          THEN /\ listOp' = ListOp("lod.move_item", 0, 0, "AttributeError")
               /\ opError' = TRUE
               /\ UNCHANGED lodsets
          ELSE /\ lodsets' = [lodsets EXCEPT
                                 ![s].lods_idx = IndexAfterMove(@, Len(lodsets[s].lods),
                                                                direction)]
               /\ listOp' = ListOp("lod.move_item", lodsets[s].lods_idx,
                                   Len(lodsets[s].lods), "")
               /\ opError' = FALSE
    /\ UNCHANGED <<user_data, list_index_userdata>>
    /\ ListFrame

NextList ==
    \/ SelectObject
    \/ UL_URHO_LIST_ITEM_USERDATA
    \/ UL_URHO_LIST_ITEM_DEL_USERDATA
    \/ UL_URHO_LIST_ITEM_MOVE_USERDATA
    \/ UL_URHO_LIST_ITEM_LOD
    \/ UL_URHO_LIST_ITEM_DEL_LOD
    \/ UL_URHO_LIST_ITEM_MOVE_LOD

SpecList == InitList /\ [][NextList]_vars

\* C28: selected-index bounds. Whenever a list is not empty its selection index
\* is inside it, and the delete and move operators find an index inside the
\* list they act on.
C28_IndexInBounds ==
    /\ \A o \in Objects :
          user_data[o] > 0 => (0 <= list_index_userdata[o] /\ list_index_userdata[o] < user_data[o])
    /\ \A i \in 1..Len(lodsets) :
          Len(lodsets[i].lods) > 0 =>
             (0 <= lodsets[i].lods_idx /\ lodsets[i].lods_idx < Len(lodsets[i].lods))
    /\ (listOp.op \in {"delete_item", "move_item", "lod.delete_item", "lod.move_item"}
        /\ listOp.raised = "")
          => (0 <= listOp.acted /\ listOp.acted < listOp.length)

\* the values of Object.lodsetID that stand for no LOD set: the property's
\* default, "no set" of the panel's selector, and the temporary export objects
ReservedLodIds == {0, -1, TempLodsetID}

\* C29: reserved LOD ids. Every LOD set has lodset_id >= 1 and none of the
\* reserved values 0, -1, -2; OpCreateLodSet gives the new set an id >= 1 and
\* stores that id in the creating object's lodsetID; and the lodsetID of a
\* temporary export object neither passes the lodsetID > 0 test of the export's
\* name resolution nor matches a LOD set.
C29_ReservedLodIds ==
    /\ [](/\ \A i \in 1..Len(lodsets) :
               /\ lodsets[i].lodset_id >= 1
               /\ lodsets[i].lodset_id \notin ReservedLodIds
          /\ ~(TempLodsetID > 0)
          /\ getLodSetWithID(TempLodsetID) = 0)
    /\ [][lodset_counter' # lodset_counter =>
            /\ Len(lodsets') = Len(lodsets) + 1
            /\ lodsets'[Len(lodsets')].lodset_id >= 1
            /\ objects'[active_object].lodsetID = lodsets'[Len(lodsets')].lodset_id]_vars

\* C29 witness: two objects each created a LOD set and hold its id.
C29_Witness ==
    /\ Len(lodsets) >= 2
    /\ \A o \in Objects :
          /\ objects[o].lodsetID >= 1
          /\ getLodSetWithID(objects[o].lodsetID) # 0
    /\ objects[1].lodsetID # objects[2].lodsetID

====
